---- MODULE Spec2Model ----
(***************************************************************************)
(* Session / chat-history lifecycle of Dudil.                              *)
(*                                                                         *)
(* Two deployments share the st.session_state keys messages, chat_history  *)
(* and current_chat_id:                                                    *)
(*   mode = "app" : app.py + sidebar.py + utils.py, file chat_history.json *)
(*   mode = "sm"  : src/core/session_manager.py, file data/chat_history.json*)
(* A behaviour is one deployment; Init chooses it.  SpecRT calls the store's *)
(* save and load on their own (mode = "rt"), SpecE2E runs one scenario.     *)
(*                                                                         *)
(* Python lists are objects: st.session_state.messages and the 'messages'  *)
(* entry of an archived record may be the same list.  heap maps a list     *)
(* reference to its contents; messages and chat_history[id].messages are   *)
(* references.                                                             *)
(***************************************************************************)
EXTENDS Integers, Sequences, FiniteSets, TLC

VARIABLES
    mode,             \* "app" | "sm"
    pc,               \* "none" (no session) | "idle" | "replying" (inside handle_user_input)
    clock,            \* datetime.now(), in seconds
    chat_history,     \* st.session_state.chat_history : chat_id -> [messages (ref), title, timestamp]
    current_chat_id,  \* st.session_state.current_chat_id
    messages,         \* st.session_state.messages : a list reference
    heap,             \* list reference -> sequence of message dicts
    file,             \* chat_history.json (mode "app")
    backups,          \* chat_history_backup_<second>.json files : second -> bytes
    data_file,        \* data/chat_history.json (mode "sm") : user_id -> that user's history
    marker,           \* data/.user_id
    user_id,          \* st.session_state.user_id
    expired,          \* now - st.session_state.last_activity > 60 minutes
    made,             \* uuid4() calls made for user ids
    faulted,          \* an I/O operation has failed (at most one does in a behaviour)
    result,           \* what the last call of a function called on its own returned
    last              \* the handler that ran last, its argument and what it reported

vars == <<mode, pc, clock, chat_history, current_chat_id, messages, heap, file, backups,
          data_file, marker, user_id, expired, made, faulted, result, last>>

appdisk == <<file, backups>>
smstate == <<data_file, marker, user_id, expired, made>>

----------------------------------------------------------------------------
(* Bounds *)

MaxClock == 1       \* seconds the clock may advance
MaxTurns == 2       \* user/assistant turns held in memory at a time
MaxElapsed == 2     \* minutes one call of SessionManager.initialize may take
MaxFrames == 8      \* frames of the call stack

(* Program constants *)
TitleLimit == 30
InputLimit == 512
Timeout == 60

----------------------------------------------------------------------------
(* Text.  A string is a sequence of characters; a character is named by a   *)
(* one-element string, except the non-ASCII "U+00E9".                       *)

QUOTE == "\""
BSLASH == "\\"
NEWLINE == "LF"
EACUTE == "U+00E9"

Rep(c, n) == [i \in 1..n |-> c]

Short == <<"h", "i">>
Long == Rep("A", TitleLimit + 1)
Reply == <<"o", EACUTE>>
NewChat == <<"N", "e", "w", " ", "C", "h", "a", "t">>
Ellipsis == <<".", ".", ".">>

Prompts == {Short, Long}

(* Variant: the title taken from the last message instead of the first. *)
get_chat_title_last(msgs) ==
    IF msgs # <<>>
    THEN LET first_message == msgs[Len(msgs)].content
         IN IF Len(first_message) > TitleLimit
            THEN SubSeq(first_message, 1, TitleLimit) \o Ellipsis
            ELSE first_message
    ELSE NewChat

(* Variant: the cut made at 30 characters without the "..." after it. *)
get_chat_title_cut(msgs) ==
    IF msgs # <<>>
    THEN LET first_message == IF "content" \in DOMAIN Head(msgs) THEN Head(msgs).content
                              ELSE <<>>
         IN IF Len(first_message) > TitleLimit
            THEN SubSeq(first_message, 1, TitleLimit)
            ELSE first_message
    ELSE NewChat

(* get_chat_title: "New Chat" for no messages, else the first content      *)
(* (messages[0].get('content', '')), cut to 30 characters plus "..." when  *)
(* longer.                                                                 *)
get_chat_title(msgs) ==
    IF msgs # <<>>
    THEN LET first_message == IF "content" \in DOMAIN Head(msgs) THEN Head(msgs).content
                              ELSE <<>>
         IN IF Len(first_message) > TitleLimit
            THEN SubSeq(first_message, 1, TitleLimit) \o Ellipsis
            ELSE first_message
    ELSE NewChat

----------------------------------------------------------------------------
(* EmotionAnnotator boundary.  The classifier is opaque: it raises, or     *)
(* returns a list of {label, score} (scores in percent).                   *)

Raises == [raised |-> TRUE]
Returns(results) == [raised |-> FALSE, results |-> results]
ClassifierOutcomes ==
    { Returns(<< [label |-> "fear", score |-> 80], [label |-> "joy", score |-> 20] >>) }

(* Variant: a label the mapping lacks gets the lowest intensity. *)
emotion_to_intensity_low(emotion) ==
    CASE emotion = "joy" -> 5
      [] emotion = "love" -> 5
      [] emotion = "surprise" -> 4
      [] emotion = "anger" -> 2
      [] emotion = "fear" -> 2
      [] emotion = "sadness" -> 1
      [] OTHER -> 1

emotion_to_intensity(emotion) ==
    CASE emotion = "joy" -> 5
      [] emotion = "love" -> 5
      [] emotion = "surprise" -> 4
      [] emotion = "anger" -> 2
      [] emotion = "fear" -> 2
      [] emotion = "sadness" -> 1
      [] OTHER -> 3

IsBlank(text) == \A i \in 1..Len(text) : text[i] \in {" ", NEWLINE}

(* The pipeline may return the list of scores inside another list. *)
ReturnsNested(results) == [raised |-> FALSE, results |-> results, nested |-> TRUE]

(* str.lower() of the labels the classifier outcomes use. *)
Lower(label) ==
    CASE label = "JOY" -> "joy"
      [] label = "Sadness" -> "sadness"
      [] OTHER -> label

(* analyze_emotion with the model loaded (handle_user_input stops before   *)
(* the call otherwise); outcome is what emotion_pipeline(text[:512]) does. *)
(* max() of an empty list raises; of equal scores it takes the first.      *)
analyze_emotion(text, outcome) ==
    IF IsBlank(text)
    THEN [emotion |-> "neutral", confidence |-> 50, intensity |-> 3,
          model_type |-> "distilbert-emotion"]
    ELSE IF outcome.raised \/ outcome.results = <<>>
    THEN [emotion |-> "neutral", confidence |-> 0, intensity |-> 3,
          model_type |-> "distilbert-emotion"]
    ELSE LET results == IF "nested" \in DOMAIN outcome THEN outcome.results[1]
                        ELSE outcome.results
             best_result ==
                 results[CHOOSE i \in 1..Len(results) :
                             /\ \A j \in 1..Len(results) : results[j].score <= results[i].score
                             /\ \A j \in 1..(i - 1) : results[j].score < results[i].score]
         IN [emotion |-> Lower(best_result.label),
             confidence |-> best_result.score,
             intensity |-> emotion_to_intensity(Lower(best_result.label)),
             raw_results |-> results,
             model_type |-> "distilbert-emotion"]

(* st.session_state.emotion_data: None, or the pair load_emotion_model      *)
(* returned, (None, None) when loading failed.                             *)
EmotionModels ==
    {[none |-> TRUE],
     [none |-> FALSE, pipeline |-> "None", model_type |-> "None"],
     [none |-> FALSE, pipeline |-> "pipeline", model_type |-> "distilbert-emotion"]}

ModelMissing(emotion_model_data) ==
    emotion_model_data.none \/ emotion_model_data.pipeline = "None"

(* analyze_emotion(text, emotion_model_data): without a model the neutral  *)
(* result, after st.error.                                                 *)
analyze_emotion_data(text, emotion_model_data, outcome) ==
    IF ModelMissing(emotion_model_data)
    THEN [emotion |-> "neutral", confidence |-> 0, intensity |-> 3, model_type |-> "none"]
    ELSE analyze_emotion(text, outcome)

(* The texts analyze_emotion gives to emotion_pipeline, in order. *)
analyze_emotion_calls(text, emotion_model_data) ==
    IF ModelMissing(emotion_model_data) \/ IsBlank(text)
    THEN <<>>
    ELSE <<SubSeq(text, 1, IF Len(text) > InputLimit THEN InputLimit ELSE Len(text))>>

----------------------------------------------------------------------------
(* JSON text of a string, as json.dump(..., ensure_ascii=False) writes it   *)
(* into a file opened with encoding='utf-8', and json.load reads it back.   *)

EscapeChar(c) ==
    CASE c = QUOTE -> <<BSLASH, QUOTE>>
      [] c = BSLASH -> <<BSLASH, BSLASH>>
      [] c = NEWLINE -> <<BSLASH, "n">>
      [] OTHER -> <<c>>

(* ensure_ascii=True (json.dump's default) writes a non-ASCII character as \uXXXX. *)
EscapeCharAscii(c) ==
    IF c = EACUTE THEN <<BSLASH, "u", "0", "0", "e", "9">> ELSE EscapeChar(c)

(* Text without a character the writer escapes is written as it is. *)
RECURSIVE JsonEscape(_, _)
JsonEscape(s, ensure_ascii) ==
    IF \A i \in 1..Len(s) : s[i] \notin {QUOTE, BSLASH, NEWLINE, EACUTE} THEN s
    ELSE (IF ensure_ascii THEN EscapeCharAscii(Head(s)) ELSE EscapeChar(Head(s)))
         \o JsonEscape(Tail(s), ensure_ascii)

RECURSIVE JsonUnescape(_)
JsonUnescape(t) ==
    IF \A i \in 1..Len(t) : t[i] # BSLASH THEN t
    ELSE IF Head(t) = BSLASH /\ Len(t) >= 6 /\ SubSeq(t, 2, 6) = <<"u", "0", "0", "e", "9">>
    THEN <<EACUTE>> \o JsonUnescape(SubSeq(t, 7, Len(t)))
    ELSE IF Head(t) = BSLASH /\ Len(t) >= 2
    THEN LET c == t[2]
         IN <<(IF c = "n" THEN NEWLINE ELSE c)>> \o JsonUnescape(SubSeq(t, 3, Len(t)))
    ELSE <<Head(t)>> \o JsonUnescape(Tail(t))

(* Variant: an encoder that drops what is not ASCII (errors='ignore'). *)
Utf8EncodeLossy(c) == IF c = EACUTE THEN <<>> ELSE <<c>>

(* open(..., 'w', encoding='utf-8') *)
Utf8EncodeChar(c) == IF c = EACUTE THEN <<"0xC3", "0xA9">> ELSE <<c>>

RECURSIVE Utf8Encode(_)
Utf8Encode(s) ==
    IF \A i \in 1..Len(s) : s[i] # EACUTE THEN s ELSE Utf8EncodeChar(Head(s)) \o Utf8Encode(Tail(s))

RECURSIVE Utf8Decode(_)
Utf8Decode(b) ==
    IF \A i \in 1..Len(b) : b[i] # "0xC3" THEN b
    ELSE IF Len(b) >= 2 /\ b[1] = "0xC3" /\ b[2] = "0xA9"
    THEN <<EACUTE>> \o Utf8Decode(SubSeq(b, 3, Len(b)))
    ELSE <<Head(b)>> \o Utf8Decode(Tail(b))

DumpStr(s, ensure_ascii) == Utf8Encode(JsonEscape(s, ensure_ascii))
LoadStr(b) == JsonUnescape(Utf8Decode(b))

DumpMessage(m, ensure_ascii) ==
    IF "emotion_analysis" \in DOMAIN m
    THEN [role |-> m.role, content |-> DumpStr(m.content, ensure_ascii),
          emotion_analysis |-> m.emotion_analysis, timestamp |-> m.timestamp]
    ELSE [role |-> m.role, content |-> DumpStr(m.content, ensure_ascii),
          timestamp |-> m.timestamp]

LoadMessage(j) ==
    IF "emotion_analysis" \in DOMAIN j
    THEN [role |-> j.role, content |-> LoadStr(j.content),
          emotion_analysis |-> j.emotion_analysis, timestamp |-> j.timestamp]
    ELSE [role |-> j.role, content |-> LoadStr(j.content), timestamp |-> j.timestamp]

(* The value of a history: every record with its list read through the heap. *)
Deep(history, h) ==
    [id \in DOMAIN history |->
        [messages |-> h[history[id].messages],
         title |-> history[id].title,
         timestamp |-> history[id].timestamp]]

(* json.dump of a history *)
JsonDump(value, ensure_ascii) ==
    [id \in DOMAIN value |->
        [messages |-> [i \in 1..Len(value[id].messages) |->
                           DumpMessage(value[id].messages[i], ensure_ascii)],
         title |-> DumpStr(value[id].title, ensure_ascii),
         timestamp |-> value[id].timestamp]]

(* json.load(f) *)
JsonLoad(doc) ==
    [id \in DOMAIN doc |->
        [messages |-> [i \in 1..Len(doc[id].messages) |-> LoadMessage(doc[id].messages[i])],
         title |-> LoadStr(doc[id].title),
         timestamp |-> doc[id].timestamp]]

(* A file: absent, bytes that are not JSON, or a JSON document. *)
Absent == [k |-> "absent"]
Bad(raw) == [k |-> "bad", raw |-> raw]
Json(doc) == [k |-> "json", doc |-> doc]

----------------------------------------------------------------------------
(* Chat identifiers and list references *)

(* "chat_%Y%m%d_%H%M%S": the second, no suffix (sfx = 0);                   *)
(* SessionManager adds "_" + uuid4().hex[:8] (sfx >= 1).                    *)
ChatId(sec, sfx) == [sec |-> sec, sfx |-> sfx]
None == ChatId(-1, -1)

create_new_chat == ChatId(clock, 0)

IdLess(a, b) == a.sec < b.sec \/ (a.sec = b.sec /\ a.sfx < b.sfx)

MaxRefs == MaxClock + 4
Refs == 0..MaxRefs
DefaultsRef == 0          \* the list object SessionManager.DEFAULTS['messages']
NoRef == DefaultsRef - 1   \* no list: st.session_state is empty

EmptyMap == [id \in {} |-> 0]
EmptyHeap == [r \in Refs |-> <<>>]

Live(history, msgs) == {history[id].messages : id \in DOMAIN history} \cup {msgs, DefaultsRef}

(* The n-th smallest reference outside used. *)
RECURSIVE NthFree(_, _)
NthFree(used, n) ==
    LET r == CHOOSE x \in Refs \ used : \A y \in Refs \ used : x <= y
    IN IF n = 1 THEN r ELSE NthFree(used \cup {r}, n - 1)

Rank(ids, id) == Cardinality({x \in ids : IdLess(x, id)}) + 1

RECURSIVE Stored(_, _)
Stored(h, r) == IF r < 0 THEN 0 ELSE Len(h[r]) + Stored(h, r - 1)

(* Unreferenced lists are garbage, and a reference is only an identity:     *)
(* after each handler the live lists are renumbered in the order of the    *)
(* first chat that holds them, the active list last if no record holds it. *)
Key(history, r) ==
    LET owners == {id \in DOMAIN history : history[id].messages = r}
    IN IF owners = {} THEN Cardinality(DOMAIN history) + 1
       ELSE CHOOSE k \in {Rank(DOMAIN history, id) : id \in owners} :
                \A j \in {Rank(DOMAIN history, id) : id \in owners} : k <= j

Moved(history, msgs, r) ==
    IF r \in {DefaultsRef, NoRef} THEN r
    ELSE 1 + Cardinality({q \in Live(history, msgs) \ {DefaultsRef, NoRef} :
                              Key(history, q) < Key(history, r)})

Commit(history, msgs, h) ==
    \E mv \in {[q \in Live(history, msgs) |-> Moved(history, msgs, q)]} :
        /\ chat_history' =
               [id \in DOMAIN history |-> [history[id] EXCEPT !.messages = mv[@]]]
        /\ messages' = mv[msgs]
        /\ heap' = [r \in Refs |->
                       IF \E q \in DOMAIN mv : mv[q] = r
                       THEN h[CHOOSE q \in DOMAIN mv : mv[q] = r]
                       ELSE <<>>]

(* Fresh list objects for the records json.load returns. *)
RefOf(ids, used, id) == NthFree(used, Rank(ids, id))

Materialize(loaded, used) ==
    [id \in DOMAIN loaded |->
        [messages |-> RefOf(DOMAIN loaded, used, id),
         title |-> loaded[id].title,
         timestamp |-> loaded[id].timestamp]]

HeapWith(h, loaded, used) ==
    [r \in Refs |->
        IF \E id \in DOMAIN loaded : RefOf(DOMAIN loaded, used, id) = r
        THEN loaded[CHOOSE id \in DOMAIN loaded : RefOf(DOMAIN loaded, used, id) = r].messages
        ELSE h[r]]

Put(history, id, rec) ==
    [x \in DOMAIN history \cup {id} |-> IF x = id THEN rec ELSE history[x]]

Del(history, id) == [x \in DOMAIN history \ {id} |-> history[x]]

NoResult == [k |-> "none"]

Ran(op, arg, saved, notices) ==
    [op |-> op, arg |-> arg, saved |-> saved, notices |-> notices]

----------------------------------------------------------------------------
(* utils.py: the single-user store *)

SaveOutcomes == {"ok", "open_failed", "write_failed"}

(* save_chat_history: open(..., 'w') truncates, json.dump writes; an        *)
(* exception of either is caught and reported with st.error.                *)
save_chat_history(history, h, outcome) ==
    CASE outcome = "ok" -> Json(JsonDump(Deep(history, h), FALSE))
      [] outcome = "open_failed" -> file
      [] outcome = "write_failed" -> Bad("truncated")

(* An I/O operation that may fail; at most one fails in a behaviour. *)
Io(ok) ==
    /\ (~ok => ~faulted)
    /\ faulted' = (faulted \/ ~ok)

Saved(outcome) == IF outcome = "ok" THEN "ok" ELSE "failed"
SaveNotices(outcome) == IF outcome = "ok" THEN {} ELSE {"Could not save chat history"}

(* load_chat_history: what it returns. *)
load_chat_history == IF file.k = "json" THEN JsonLoad(file.doc) ELSE EmptyMap

(* load_chat_history: what it leaves on disk; os.rename of a corrupt file   *)
(* to chat_history_backup_<second>.json may fail, which is swallowed.       *)
load_chat_history_file(rename_ok) ==
    IF file.k = "bad" /\ rename_ok THEN Absent ELSE file

load_chat_history_backups(rename_ok) ==
    IF file.k = "bad" /\ rename_ok
    THEN [b \in DOMAIN backups \cup {clock} |-> IF b = clock THEN file.raw ELSE backups[b]]
    ELSE backups

load_chat_history_notices(rename_ok) ==
    IF file.k # "bad" THEN {}
    ELSE IF rename_ok THEN {"Could not load chat history", "Corrupted history backed up"}
    ELSE {"Could not load chat history"}

----------------------------------------------------------------------------
(* app.py / sidebar.py: the single-user lifecycle *)

(* Variant: the record's title taken from the last message of the list. *)
Archive_title_last(history, h) ==
    Put(history, current_chat_id,
        [messages |-> messages,
         title |-> get_chat_title_last(h[messages]),
         timestamp |-> clock])

Archive(history, h) ==
    Put(history, current_chat_id,
        [messages |-> messages,
         title |-> get_chat_title(h[messages]),
         timestamp |-> clock])

(* initialize_session_state on the first run of a browser session. *)
initialize_session_state(rename_ok) ==
    /\ mode = "app" /\ pc = "none"
    /\ (file.k # "bad" => rename_ok)
    /\ Io(rename_ok)
    /\ \E loaded \in {load_chat_history} :
       \E history \in {Materialize(loaded, {DefaultsRef})} :
          /\ Commit(history, NthFree(Live(history, DefaultsRef), 1),
                    HeapWith(EmptyHeap, loaded, {DefaultsRef}))
          /\ current_chat_id' = create_new_chat
    /\ file' = load_chat_history_file(rename_ok)
    /\ backups' = load_chat_history_backups(rename_ok)
    /\ pc' = "idle"
    /\ last' = Ran("start", None, "none", load_chat_history_notices(rename_ok))
    /\ UNCHANGED <<result, mode, clock, smstate>>

(* Variant: the two availability tests made after the user message was    *)
(* appended.                                                               *)
handle_user_input_refused_late(prompt, api_ready, model_available) ==
    /\ mode = "app" /\ pc = "idle"
    /\ ~(api_ready /\ model_available)
    /\ Stored(heap, MaxRefs) < 2 * MaxTurns
    /\ \E user_message \in {[role |-> "user", content |-> prompt,
                             emotion_analysis |-> analyze_emotion(prompt, Raises),
                             timestamp |-> clock]} :
          heap' = [heap EXCEPT ![messages] = Append(@, user_message)]
    /\ last' = Ran("refused", None, "none",
                   {IF ~api_ready THEN "Please enter your Gemini API key and connect first."
                    ELSE "Emotion model not available"})
    /\ UNCHANGED <<result, mode, pc, clock, chat_history, current_chat_id, messages, appdisk,
                   smstate, faulted>>

(* handle_user_input when the generator is not connected (no api_key, or   *)
(* api_connected is False) or the emotion model is not loaded: st.error    *)
(* and st.stop(), which ends the run of the script.                        *)
handle_user_input_refused(prompt, api_ready, model_available) ==
    /\ mode = "app" /\ pc = "idle"
    /\ ~(api_ready /\ model_available)
    /\ last' = Ran("refused", None, "none",
                   {IF ~api_ready THEN "Please enter your Gemini API key and connect first."
                    ELSE "Emotion model not available"})
    /\ UNCHANGED <<result, mode, pc, clock, chat_history, current_chat_id, messages, heap,
                   appdisk, smstate, faulted>>

(* Variant: the user message inserted at the front (messages.insert(0, ...)). *)
handle_user_input_user_first(prompt, outcome) ==
    /\ mode = "app" /\ pc = "idle"
    /\ Stored(heap, MaxRefs) < 2 * MaxTurns
    /\ \E emotion_analysis \in {analyze_emotion(prompt, outcome)} :
       \E user_message \in {[role |-> "user", content |-> prompt,
                             emotion_analysis |-> emotion_analysis, timestamp |-> clock]} :
          heap' = [heap EXCEPT ![messages] = <<user_message>> \o @]
    /\ pc' = "replying"
    /\ last' = Ran("append_user", None, "none", {})
    /\ UNCHANGED <<result, mode, clock, chat_history, current_chat_id, messages, appdisk, smstate, faulted>>

(* handle_user_input up to the append of the user message. *)
handle_user_input_user(prompt, outcome) ==
    /\ mode = "app" /\ pc = "idle"
    /\ Stored(heap, MaxRefs) < 2 * MaxTurns
    /\ \E emotion_analysis \in {analyze_emotion(prompt, outcome)} :
       \E user_message \in {[role |-> "user", content |-> prompt,
                             emotion_analysis |-> emotion_analysis, timestamp |-> clock]} :
          heap' = [heap EXCEPT ![messages] = Append(@, user_message)]
    /\ pc' = "replying"
    /\ last' = Ran("append_user", None, "none", {})
    /\ UNCHANGED <<result, mode, clock, chat_history, current_chat_id, messages, appdisk, smstate, faulted>>

(* Variant: the reply shown but not appended before the archive. *)
handle_user_input_reply_shown(response, outcome) ==
    /\ mode = "app" /\ pc = "replying"
    /\ Io(outcome = "ok")
    /\ \E history \in {Archive(chat_history, heap)} :
          /\ file' = save_chat_history(history, heap, outcome)
          /\ Commit(history, messages, heap)
    /\ pc' = "idle"
    /\ last' = Ran("append_assistant", None, Saved(outcome), SaveNotices(outcome))
    /\ UNCHANGED <<result, mode, clock, current_chat_id, backups, smstate>>

(* handle_user_input from the reply on: append, archive, save. *)
handle_user_input_reply(response, outcome) ==
    /\ mode = "app" /\ pc = "replying"
    /\ Io(outcome = "ok")
    /\ \E bot_message \in {[role |-> "assistant", content |-> response, timestamp |-> clock]} :
       \E h \in {[heap EXCEPT ![messages] = Append(@, bot_message)]} :
       \E history \in {Archive(chat_history, h)} :
          /\ file' = save_chat_history(history, h, outcome)
          /\ Commit(history, messages, h)
    /\ pc' = "idle"
    /\ last' = Ran("append_assistant", None, Saved(outcome), SaveNotices(outcome))
    /\ UNCHANGED <<result, mode, clock, current_chat_id, backups, smstate>>

(* Variant: handle_new_chat without its "if st.session_state.messages" test. *)
handle_new_chat_always(outcome) ==
    /\ mode = "app" /\ pc = "idle"
    /\ Io(outcome = "ok")
    /\ \E history \in {Archive(chat_history, heap)} :
       \E fresh \in {NthFree(Live(history, DefaultsRef), 1)} :
          /\ file' = save_chat_history(history, heap, outcome)
          /\ Commit(history, fresh, [heap EXCEPT ![fresh] = <<>>])
    /\ last' = Ran("new", None, IF heap[messages] # <<>> THEN Saved(outcome) ELSE "none",
                   SaveNotices(outcome))
    /\ current_chat_id' = create_new_chat
    /\ UNCHANGED <<result, mode, pc, clock, backups, smstate>>

(* handle_new_chat, the button clicked. *)
handle_new_chat(outcome) ==
    /\ mode = "app" /\ pc = "idle"
    /\ IF heap[messages] # <<>>
       THEN /\ Io(outcome = "ok")
            /\ \E history \in {Archive(chat_history, heap)} :
               \E fresh \in {NthFree(Live(history, DefaultsRef), 1)} :
                  /\ file' = save_chat_history(history, heap, outcome)
                  /\ Commit(history, fresh, [heap EXCEPT ![fresh] = <<>>])
            /\ last' = Ran("new", None, Saved(outcome), SaveNotices(outcome))
       ELSE /\ outcome = "ok"
            /\ \E fresh \in {NthFree(Live(chat_history, DefaultsRef), 1)} :
                  Commit(chat_history, fresh, [heap EXCEPT ![fresh] = <<>>])
            /\ UNCHANGED <<file, faulted>>
            /\ last' = Ran("new", None, "none", {})
    /\ current_chat_id' = create_new_chat
    /\ UNCHANGED <<result, mode, pc, clock, backups, smstate>>

(* render_chat_item, the chat's load button clicked. *)
(* Variant: the load button without its "if st.session_state.messages". *)
render_chat_item_load_always(chat_id, outcome) ==
    /\ mode = "app" /\ pc = "idle"
    /\ chat_id \in DOMAIN chat_history
    /\ Io(outcome = "ok")
    /\ \E chat_data \in {chat_history[chat_id]} :
       \E history \in {Archive(chat_history, heap)} :
          /\ current_chat_id' = chat_id
          /\ file' = save_chat_history(history, heap, outcome)
          /\ Commit(history, chat_data.messages, heap)
    /\ last' = Ran("switch", chat_id, Saved(outcome), SaveNotices(outcome))
    /\ UNCHANGED <<result, mode, pc, clock, backups, smstate>>

render_chat_item_load(chat_id, outcome) ==
    /\ mode = "app" /\ pc = "idle"
    /\ chat_id \in DOMAIN chat_history
    /\ Io(outcome = "ok")
    /\ \E chat_data \in {chat_history[chat_id]} :
       \E history \in {IF heap[messages] # <<>>
                       THEN Archive(chat_history, heap) ELSE chat_history} :
          /\ current_chat_id' = chat_id
          /\ file' = save_chat_history(history, heap, outcome)
          /\ Commit(history, chat_data.messages, heap)
    /\ last' = Ran("switch", chat_id, Saved(outcome), SaveNotices(outcome))
    /\ UNCHANGED <<result, mode, pc, clock, backups, smstate>>

(* render_chat_item, the chat's delete button clicked. *)
render_chat_item_delete(chat_id, outcome) ==
    /\ mode = "app" /\ pc = "idle"
    /\ chat_id \in DOMAIN chat_history
    /\ Io(outcome = "ok")
    /\ \E history \in {Del(chat_history, chat_id)} :
       \E fresh \in {NthFree(Live(chat_history, messages), 1)} :
          /\ IF chat_id = current_chat_id
             THEN /\ current_chat_id' = create_new_chat
                  /\ Commit(history, fresh, [heap EXCEPT ![fresh] = <<>>])
             ELSE /\ current_chat_id' = current_chat_id
                  /\ Commit(history, messages, heap)
          /\ file' = save_chat_history(history, heap, outcome)
    /\ last' = Ran("delete", chat_id, Saved(outcome), SaveNotices(outcome) \cup {"Chat deleted!"})
    /\ UNCHANGED <<result, mode, pc, clock, backups, smstate>>

(* The browser session ends; st.session_state is gone, the files stay. *)
Restart ==
    /\ pc = "idle"
    /\ pc' = "none"
    /\ chat_history' = EmptyMap
    /\ current_chat_id' = None
    /\ messages' = NoRef
    /\ heap' = [EmptyHeap EXCEPT ![DefaultsRef] = heap[DefaultsRef]]
    /\ user_id' = "None"
    /\ expired' = FALSE
    /\ last' = Ran("restart", None, "none", {})
    /\ UNCHANGED <<result, mode, clock, appdisk, data_file, marker, made, faulted>>

----------------------------------------------------------------------------
(* src/core/session_manager.py: the SessionManager lifecycle *)

(* uuid4().hex[:8] / hex[:16]: random; modelled as a value no identifier in *)
(* memory or on disk carries.                                               *)
FileIds ==
    IF data_file.k = "json"
    THEN UNION {DOMAIN data_file.doc[u] : u \in DOMAIN data_file.doc}
    ELSE {}

UsedSfx == {id.sfx : id \in DOMAIN chat_history \cup FileIds \cup {current_chat_id}}

FreshSfx == CHOOSE n \in 1..(Cardinality(UsedSfx) + 1) :
                /\ n \notin UsedSfx
                /\ \A k \in 1..(n - 1) : k \in UsedSfx

(* Variant: a generator that repeats itself. *)
NewUserId_repeated == "user_a"

NewUserId == IF made = 0 THEN "user_a" ELSE "user_b"

(* data/.user_id holds text: a sequence of characters in which an          *)
(* identifier is one item.                                                 *)
Text(t) == [k |-> "text", text |-> t]

Whitespace == {" ", NEWLINE}

(* str.strip() *)
RECURSIVE Strip(_)
Strip(t) ==
    IF t = <<>> THEN t
    ELSE IF Head(t) \in Whitespace THEN Strip(Tail(t))
    ELSE IF t[Len(t)] \in Whitespace THEN Strip(SubSeq(t, 1, Len(t) - 1))
    ELSE t

(* The str of a text: its items joined. *)
RECURSIVE Str(_)
Str(t) == IF t = <<>> THEN "" ELSE Head(t) \o Str(Tail(t))

(* Variant: _get_stored_user_id that returns f.read() as it is. *)
SM_get_stored_user_id_raw(read_ok) ==
    IF marker.k = "text" /\ read_ok THEN Str(marker.text) ELSE ""

(* _get_stored_user_id: f.read().strip(), or None ("" here: both are falsy) *)
(* when the file is absent or cannot be read.                               *)
SM_get_stored_user_id(read_ok) ==
    IF marker.k = "text" /\ read_ok THEN Str(Strip(marker.text)) ELSE ""

(* _generate_user_id: what it returns. *)
SM_generate_user_id(read_ok) ==
    IF SM_get_stored_user_id(read_ok) # "" THEN SM_get_stored_user_id(read_ok) ELSE NewUserId

(* _store_user_id: the marker afterwards; a failure is swallowed. *)
SM_store_user_id(new_id, store_ok) == IF store_ok THEN Text(<<new_id>>) ELSE marker

(* The entry of data/chat_history.json _load_persisted_data assigns to     *)
(* chat_history; an unreadable file raises, which is swallowed.            *)
SM_persisted(uid) ==
    IF data_file.k = "json" /\ uid \in DOMAIN data_file.doc
    THEN [found |-> TRUE, value |-> JsonLoad(data_file.doc[uid])]
    ELSE [found |-> FALSE]

(* Variant: save_chat_history without the read of the existing file        *)
(* (existing_data = {} always): only the current user's entry is written.  *)
SM_save_file_alone(history, h, outcome) ==
    IF data_file.k = "bad" THEN data_file
    ELSE CASE outcome = "ok" ->
                  Json([u \in {user_id} |-> JsonDump(Deep(history, h), TRUE)])
           [] outcome = "open_failed" -> data_file
           [] outcome = "write_failed" -> Bad("truncated")

(* Variant: save_chat_history whose existing_data stays {}. *)
SM_existing_data_none(f) == [u \in {} |-> 0]

(* existing_data = {}; if the file exists, existing_data = json.load(f).   *)
(* Defined for a file that is absent or holds a JSON document.             *)
SM_existing_data(f) ==
    IF f.k = "json" THEN [u \in DOMAIN f.doc |-> JsonLoad(f.doc[u])]
    ELSE [u \in {} |-> 0]

(* existing_data[user_id] = chat_history; json.dump(existing_data, ...)    *)
SM_document(existing_data, uid, value) ==
    [u \in DOMAIN existing_data \cup {uid} |->
        JsonDump(IF u = uid THEN value ELSE existing_data[u], TRUE)]

(* SessionManager.save_chat_history: the file afterwards.  The existing    *)
(* document is read (json.load), the user's entry replaced, and the whole  *)
(* written again (json.dump, ensure_ascii by default).                     *)
SM_save_file(history, h, outcome) ==
    IF data_file.k = "bad" THEN data_file
    ELSE CASE outcome = "ok" ->
                  Json(SM_document(SM_existing_data(data_file), user_id, Deep(history, h)))
           [] outcome = "open_failed" -> data_file
           [] outcome = "write_failed" -> Bad("truncated")

SM_saved(outcome) == IF data_file.k # "bad" /\ outcome = "ok" THEN "ok" ELSE "failed"

SM_save_notices(outcome) ==
    IF SM_saved(outcome) = "ok" THEN {} ELSE {"Could not save chat history"}

(* The save's I/O: reading a corrupt file fails by itself. *)
SM_Io(outcome) ==
    IF data_file.k = "bad"
    THEN outcome = "ok" /\ UNCHANGED faulted
    ELSE Io(outcome = "ok")

(* SessionManager.initialize, on every run of the script. *)
SM_initialize(read_ok, store_ok) ==
    /\ mode = "sm" /\ pc \in {"none", "idle"}
    /\ \E first \in {pc = "none"} :
       \E generate \in {first /\ SM_get_stored_user_id(read_ok) = ""} :
       \E uid \in {IF first THEN SM_generate_user_id(read_ok) ELSE user_id} :
       \E timed_out \in {~first /\ expired} :
       \E reset \in {first \/ timed_out} :
       \E persisted \in {SM_persisted(uid)} :
          /\ (~(first /\ marker.k = "text") => read_ok)
          /\ (~generate => store_ok)
          /\ Io(read_ok /\ store_ok)
          /\ user_id' = uid
          /\ marker' = IF generate THEN SM_store_user_id(uid, store_ok) ELSE marker
          /\ made' = IF generate THEN made + 1 ELSE made
          /\ expired' = IF reset THEN FALSE ELSE expired
          /\ current_chat_id' = IF reset THEN None ELSE current_chat_id
          /\ \E msgs \in {IF reset THEN DefaultsRef ELSE messages} :
                IF persisted.found
                THEN Commit(Materialize(persisted.value, {DefaultsRef, msgs}), msgs,
                            HeapWith(heap, persisted.value, {DefaultsRef, msgs}))
                ELSE Commit(IF reset THEN EmptyMap ELSE chat_history, msgs, heap)
          /\ last' = Ran("sm_initialize", None,
                         IF generate THEN Saved(IF store_ok THEN "ok" ELSE "failed")
                         ELSE "none",
                         IF timed_out THEN {"Your session has timed out"} ELSE {})
    /\ pc' = "idle"
    /\ UNCHANGED <<result, mode, clock, appdisk, data_file>>

(* SessionManager.create_new_chat *)
SM_create_new_chat ==
    /\ mode = "sm" /\ pc = "idle"
    /\ \E chat_id \in {ChatId(clock, FreshSfx)} :
       \E fresh \in {NthFree(Live(chat_history, messages), 1)} :
          /\ current_chat_id' = chat_id
          /\ Commit(chat_history, fresh, [heap EXCEPT ![fresh] = <<>>])
          /\ last' = Ran("sm_new", chat_id, "none", {})
    /\ UNCHANGED <<result, mode, pc, clock, appdisk, smstate, faulted>>

(* Variant: switch_chat without its membership test                       *)
(* (chat_history.get(chat_id, {}).get('messages', [])).                   *)
SM_switch_chat_get(chat_id) ==
    /\ mode = "sm" /\ pc = "idle"
    /\ current_chat_id' = chat_id
    /\ IF chat_id \in DOMAIN chat_history
       THEN /\ Commit(chat_history, chat_history[chat_id].messages, heap)
            /\ last' = Ran("sm_switch", chat_id, "none", {})
       ELSE /\ \E fresh \in {NthFree(Live(chat_history, messages), 1)} :
                  Commit(chat_history, fresh, [heap EXCEPT ![fresh] = <<>>])
            /\ last' = Ran("sm_switch", chat_id, "none", {"Chat not found"})
    /\ UNCHANGED <<result, mode, pc, clock, appdisk, smstate, faulted>>

(* SessionManager.switch_chat *)
SM_switch_chat(chat_id) ==
    /\ mode = "sm" /\ pc = "idle"
    /\ IF chat_id \in DOMAIN chat_history
       THEN /\ current_chat_id' = chat_id
            /\ Commit(chat_history, chat_history[chat_id].messages, heap)
            /\ last' = Ran("sm_switch", chat_id, "none", {})
       ELSE /\ UNCHANGED <<current_chat_id, chat_history, messages, heap>>
            /\ last' = Ran("sm_switch", chat_id, "none", {"Chat not found"})
    /\ UNCHANGED <<result, mode, pc, clock, appdisk, smstate, faulted>>

(* Variant: delete_chat without its "chat_id == current_chat_id" test: the  *)
(* active session is reset by every delete.                                *)
SM_delete_chat_reset(chat_id, outcome) ==
    /\ mode = "sm" /\ pc = "idle"
    /\ IF chat_id \in DOMAIN chat_history
       THEN /\ SM_Io(outcome)
            /\ \E history \in {Del(chat_history, chat_id)} :
               \E fresh \in {NthFree(Live(chat_history, messages), 1)} :
               \E h \in {[heap EXCEPT ![fresh] = <<>>]} :
                  /\ current_chat_id' = ChatId(clock, FreshSfx)
                  /\ Commit(history, fresh, h)
                  /\ data_file' = SM_save_file(history, h, outcome)
            /\ last' = Ran("sm_delete", chat_id, SM_saved(outcome), SM_save_notices(outcome))
       ELSE /\ outcome = "ok"
            /\ UNCHANGED <<current_chat_id, chat_history, messages, heap, data_file, faulted>>
            /\ last' = Ran("sm_delete", chat_id, "none", {})
    /\ UNCHANGED <<result, mode, pc, clock, appdisk, marker, user_id, expired, made>>

(* SessionManager.delete_chat *)
SM_delete_chat(chat_id, outcome) ==
    /\ mode = "sm" /\ pc = "idle"
    /\ IF chat_id \in DOMAIN chat_history
       THEN /\ SM_Io(outcome)
            /\ \E history \in {Del(chat_history, chat_id)} :
               \E fresh \in {NthFree(Live(chat_history, messages), 1)} :
               \E h \in {IF chat_id = current_chat_id
                         THEN [heap EXCEPT ![fresh] = <<>>] ELSE heap} :
                  /\ IF chat_id = current_chat_id
                     THEN /\ current_chat_id' = ChatId(clock, FreshSfx)
                          /\ Commit(history, fresh, h)
                     ELSE /\ current_chat_id' = current_chat_id
                          /\ Commit(history, messages, h)
                  /\ data_file' = SM_save_file(history, h, outcome)
            /\ last' = Ran("sm_delete", chat_id, SM_saved(outcome), SM_save_notices(outcome))
       ELSE /\ outcome = "ok"
            /\ UNCHANGED <<current_chat_id, chat_history, messages, heap, data_file, faulted>>
            /\ last' = Ran("sm_delete", chat_id, "none", {})
    /\ UNCHANGED <<result, mode, pc, clock, appdisk, marker, user_id, expired, made>>

(* SessionManager.save_chat_history, called by a page. *)
SM_save_chat_history(outcome) ==
    /\ mode = "sm" /\ pc = "idle"
    /\ SM_Io(outcome)
    /\ data_file' = SM_save_file(chat_history, heap, outcome)
    /\ last' = Ran("sm_save", None, SM_saved(outcome), SM_save_notices(outcome))
    /\ UNCHANGED <<result, mode, pc, clock, chat_history, current_chat_id, messages, heap, appdisk,
                   marker, user_id, expired, made>>

(* SessionManager.update_activity *)
SM_update_activity ==
    /\ mode = "sm" /\ pc = "idle"
    /\ expired
    /\ expired' = FALSE
    /\ last' = Ran("sm_update_activity", None, "none", {})
    /\ UNCHANGED <<result, mode, pc, clock, chat_history, current_chat_id, messages, heap, appdisk,
                   data_file, marker, user_id, made, faulted>>

(* A page handles one prompt: it appends the user message and the reply to *)
(* st.session_state.messages, in place (appendUserMessage,                 *)
(* appendAssistantMessage).                                                *)
SM_append(prompt, outcome) ==
    /\ mode = "sm" /\ pc = "idle"
    /\ Stored(heap, MaxRefs) < 2 * MaxTurns
    /\ \E user_message \in {[role |-> "user", content |-> prompt,
                             emotion_analysis |-> analyze_emotion(prompt, outcome),
                             timestamp |-> clock]} :
       \E bot_message \in {[role |-> "assistant", content |-> Reply, timestamp |-> clock]} :
          heap' = [heap EXCEPT ![messages] = @ \o <<user_message, bot_message>>]
    /\ last' = Ran("sm_append", None, "none", {})
    /\ UNCHANGED <<result, mode, pc, clock, chat_history, current_chat_id, messages, appdisk,
                   smstate, faulted>>

(* More than 60 minutes pass without activity. *)
Idle ==
    /\ mode = "sm" /\ pc = "idle"
    /\ ~expired
    /\ clock < MaxClock
    /\ clock' = clock + 1
    /\ expired' = TRUE
    /\ last' = Ran("idle", None, "none", {})
    /\ UNCHANGED <<result, mode, pc, chat_history, current_chat_id, messages, heap, appdisk,
                   data_file, marker, user_id, made, faulted>>

(* A second passes. *)
Tick ==
    /\ clock < MaxClock
    /\ clock' = clock + 1
    /\ last' = Ran("tick", None, "none", {})
    /\ UNCHANGED <<result, mode, pc, chat_history, current_chat_id, messages, heap, appdisk, smstate, faulted>>

----------------------------------------------------------------------------

(* A chat identifier no record carries. *)
Missing == ChatId(-1, 0)

(* What an earlier run left in data/chat_history.json. *)
OldTurn ==
    << [role |-> "user", content |-> Short,
        emotion_analysis |-> analyze_emotion(Short, Raises), timestamp |-> 0],
       [role |-> "assistant", content |-> Reply, timestamp |-> 0] >>

(* user_1 (sfx = 1) also has a chat without messages. *)
OldHistory(sfx) ==
    [id \in {ChatId(0, sfx)} \cup (IF sfx = 1 THEN {ChatId(0, 3)} ELSE {}) |->
        IF id.sfx = sfx
        THEN [messages |-> OldTurn, title |-> get_chat_title(OldTurn), timestamp |-> 0]
        ELSE [messages |-> <<>>, title |-> get_chat_title(<<>>), timestamp |-> 0]]

(* user_2's entry holds its non-ASCII text as UTF-8, not as \uXXXX. *)
OldDoc ==
    [u \in {"user_1", "user_2"} |->
        IF u = "user_1" THEN JsonDump(OldHistory(1), TRUE)
        ELSE JsonDump(OldHistory(2), FALSE)]

Common ==
    /\ pc = "none"
    /\ clock = 0
    /\ chat_history = EmptyMap
    /\ current_chat_id = None
    /\ messages = NoRef
    /\ heap = EmptyHeap
    /\ backups = [b \in {} |-> 0]
    /\ user_id = "None"
    /\ expired = FALSE
    /\ made = 0
    /\ faulted = FALSE
    /\ result = NoResult
    /\ last = Ran("none", None, "none", {})

(* The single-user deployment: app.py, sidebar.py, utils.py *)
Init ==
    /\ mode = "app"
    /\ Common
    /\ file \in {Absent, Bad("garbage")}
    /\ data_file = Absent
    /\ marker = Absent

(* The SessionManager deployment *)
InitSM ==
    /\ mode = "sm"
    /\ Common
    /\ file = Absent
    /\ data_file \in {Absent, Bad("garbage"), Json(OldDoc)}
    /\ marker \in IF data_file.k = "json" THEN {Absent, Text(<<"user_1">>)} ELSE {Absent}

Next ==
    \/ \E rename_ok \in BOOLEAN : initialize_session_state(rename_ok)
    \/ \E prompt \in Prompts, outcome \in ClassifierOutcomes :
           handle_user_input_user(prompt, outcome)
    \/ \E outcome \in SaveOutcomes : handle_user_input_reply(Reply, outcome)
    \/ \E outcome \in SaveOutcomes : handle_new_chat(outcome)
    \/ \E chat_id \in DOMAIN chat_history, outcome \in SaveOutcomes :
           render_chat_item_load(chat_id, outcome)
    \/ \E chat_id \in DOMAIN chat_history, outcome \in SaveOutcomes :
           render_chat_item_delete(chat_id, outcome)
    \/ Restart
    \/ Tick

NextSM ==
    \/ \E store_ok \in BOOLEAN : SM_initialize(TRUE, store_ok)
    \/ SM_create_new_chat
    \/ \E chat_id \in DOMAIN chat_history \cup {Missing} : SM_switch_chat(chat_id)
    \/ \E chat_id \in DOMAIN chat_history \cup {Missing}, outcome \in SaveOutcomes :
           SM_delete_chat(chat_id, outcome)
    \/ \E outcome \in SaveOutcomes : SM_save_chat_history(outcome)
    \/ SM_update_activity
    \/ \E outcome \in ClassifierOutcomes : SM_append(Short, outcome)
    \/ Idle
    \/ Restart
    \/ Tick

Spec == Init /\ [][Next]_vars

SpecSM == InitSM /\ [][NextSM]_vars

(* The user identifier over browser sessions: data/.user_id absent, empty, *)
(* blank, or holding an identifier with or without surrounding whitespace; *)
(* its read and its write can fail.                                        *)
UidMarkers ==
    {Absent, Text(<<>>), Text(<<" ", NEWLINE>>), Text(<<"user_1">>),
     Text(<<" ", "user_1", NEWLINE>>)}

InitUid ==
    /\ mode = "sm"
    /\ Common
    /\ file = Absent
    /\ data_file \in {Absent, Json(OldDoc)}
    /\ marker \in UidMarkers

NextUid ==
    \/ \E read_ok \in BOOLEAN, store_ok \in BOOLEAN : SM_initialize(read_ok, store_ok)
    \/ SM_create_new_chat
    \/ SM_update_activity
    \/ Idle
    \/ Restart
    \/ Tick

SpecUid == InitUid /\ [][NextUid]_vars

(* Either deployment *)
SpecBoth == (Init \/ InitSM) /\ [][Next \/ NextSM]_vars

----------------------------------------------------------------------------
(* utils.save_chat_history / utils.load_chat_history called on their own,   *)
(* on histories whose text needs escaping and encoding.                     *)

RTChars == {"n", QUOTE, BSLASH, NEWLINE, EACUTE}
RTStrings == {<<>>} \cup {<<c>> : c \in RTChars} \cup {<<c, d>> : c \in RTChars, d \in RTChars}

RTUser(text) ==
    [role |-> "user", content |-> text,
     emotion_analysis |-> analyze_emotion(text, CHOOSE o \in ClassifierOutcomes : TRUE),
     timestamp |-> 0]

RTBot == [role |-> "assistant", content |-> Reply, timestamp |-> 0]

RTRecord(msgs) == [messages |-> msgs, title |-> get_chat_title(msgs), timestamp |-> 0]

RTMaps ==
    {EmptyMap}
    \cup {[id \in {ChatId(0, 0)} |-> RTRecord(<<RTUser(text), RTBot>>)] : text \in RTStrings}
    \cup {[id \in {ChatId(0, 0), ChatId(1, 0)} |->
              IF id.sec = 0 THEN RTRecord(<<RTUser(text)>>) ELSE RTRecord(<<RTBot>>)] :
          text \in RTStrings}

InitRT ==
    /\ mode = "rt"
    /\ pc = "none"
    /\ clock = 0
    /\ \E M \in RTMaps :
          /\ chat_history = Materialize(M, {DefaultsRef})
          /\ heap = HeapWith(EmptyHeap, M, {DefaultsRef})
    /\ current_chat_id = None
    /\ messages = NoRef
    /\ file = Absent
    /\ backups = [b \in {} |-> 0]
    /\ data_file = Absent
    /\ marker = Absent
    /\ user_id = "None"
    /\ expired = FALSE
    /\ made = 0
    /\ faulted = FALSE
    /\ result = NoResult
    /\ last = Ran("none", None, "none", {})

(* save_chat_history(chat_history) *)
RT_save(outcome) ==
    /\ mode = "rt"
    /\ Io(outcome = "ok")
    /\ file' = save_chat_history(chat_history, heap, outcome)
    /\ last' = Ran("save", None, Saved(outcome), SaveNotices(outcome))
    /\ UNCHANGED <<result, mode, pc, clock, chat_history, current_chat_id, messages, heap,
                   backups, smstate>>

(* result = load_chat_history() *)
RT_load(rename_ok) ==
    /\ mode = "rt"
    /\ (file.k # "bad" => rename_ok)
    /\ Io(rename_ok)
    /\ result' = [k |-> "history", value |-> load_chat_history]
    /\ file' = load_chat_history_file(rename_ok)
    /\ backups' = load_chat_history_backups(rename_ok)
    /\ last' = Ran("load", None, last.saved, load_chat_history_notices(rename_ok))
    /\ UNCHANGED <<mode, pc, clock, chat_history, current_chat_id, messages, heap, smstate>>

NextRT ==
    \/ \E outcome \in SaveOutcomes : RT_save(outcome)
    \/ \E rename_ok \in BOOLEAN : RT_load(rename_ok)

SpecRT == InitRT /\ [][NextRT]_vars

----------------------------------------------------------------------------
(* Two processes, one per user, each running SessionManager.save_chat_history *)
(* once on the same data/chat_history.json.  A save is three steps: the read  *)
(* of the existing document, open(..., 'w'), which empties the file, and the  *)
(* write of the dumped document, which reaches the file when it is closed     *)
(* (the documents here are smaller than the writer's buffer).                 *)

RaceProcs == {1, 2}

RaceUser(p) == IF p = 1 THEN "user_1" ELSE "user_2"

(* What a process holds in st.session_state.chat_history. *)
RaceHistories(p) ==
    LET added == [id \in {ChatId(1, p)} |->
                     [messages |-> OldTurn, title |-> get_chat_title(OldTurn), timestamp |-> 1]]
    IN {EmptyMap, added,
        [id \in DOMAIN OldHistory(p) \cup DOMAIN added |->
            IF id \in DOMAIN added THEN added[id] ELSE OldHistory(p)[id]]}

InitRace ==
    /\ mode = "race"
    /\ pc = "none"
    /\ clock = 0
    /\ chat_history = EmptyMap
    /\ current_chat_id = None
    /\ messages = NoRef
    /\ heap = EmptyHeap
    /\ file = Absent
    /\ backups = [b \in {} |-> 0]
    /\ data_file \in {Absent, Bad("garbage"), Json(OldDoc)}
    /\ marker = Absent
    /\ user_id = "None"
    /\ expired = FALSE
    /\ made = 0
    /\ faulted = FALSE
    /\ \E h1 \in RaceHistories(1), h2 \in RaceHistories(2) :
          result = [proc |-> [p \in RaceProcs |->
                                 [pc |-> "ready",
                                  chat_history |-> IF p = 1 THEN h1 ELSE h2,
                                  existing_data |-> [u \in {} |-> 0]]],
                    log |-> <<>>]
    /\ last = Ran("none", None, "none", {})

RaceStep(p, at, existing_data) ==
    [proc |-> [result.proc EXCEPT ![p] =
                  [pc |-> at, chat_history |-> @.chat_history,
                   existing_data |-> existing_data]],
     log |-> Append(result.log, p)]

RaceFrame ==
    UNCHANGED <<mode, pc, clock, chat_history, current_chat_id, messages, heap, file,
                backups, marker, user_id, expired, made, faulted>>

(* if os.path.exists(history_file): existing_data = json.load(f).  A file  *)
(* that is not JSON, one another process has just emptied included, makes  *)
(* json.load raise: the save ends with the warning and writes nothing.     *)
Race_read(p) ==
    /\ mode = "race" /\ result.proc[p].pc = "ready"
    /\ IF data_file.k = "bad"
       THEN /\ result' = RaceStep(p, "failed", result.proc[p].existing_data)
            /\ last' = Ran("race_read", None, "failed", {"Could not save chat history"})
       ELSE /\ result' = RaceStep(p, "read", SM_existing_data(data_file))
            /\ last' = Ran("race_read", None, "none", {})
    /\ UNCHANGED data_file
    /\ RaceFrame

(* existing_data[user_id] = chat_history; open(history_file, 'w') *)
Race_open(p) ==
    /\ mode = "race" /\ result.proc[p].pc = "read"
    /\ result' = RaceStep(p, "open", result.proc[p].existing_data)
    /\ data_file' = Bad("truncated")
    /\ last' = Ran("race_open", None, "none", {})
    /\ RaceFrame

(* json.dump(existing_data, f, indent=2, default=str) and the close.  The  *)
(* bytes go to offset 0 of the file: over what the other process wrote     *)
(* since this one opened it, they leave this document if it is at least as *)
(* long as the other, and otherwise this document followed by the other's  *)
(* tail; the lengths are not modelled, both outcomes are.                  *)
Race_dump(p) ==
    /\ mode = "race" /\ result.proc[p].pc = "open"
    /\ \E document \in {Json(SM_document(result.proc[p].existing_data, RaceUser(p),
                                          result.proc[p].chat_history))} :
          data_file' \in IF data_file.k = "json" /\ data_file # document
                         THEN {document, Bad("overlaid")}
                         ELSE {document}
    /\ result' = RaceStep(p, "done", result.proc[p].existing_data)
    /\ last' = Ran("race_dump", None, "ok", {})
    /\ RaceFrame

NextRace ==
    \/ \E p \in RaceProcs : Race_read(p)
    \/ \E p \in RaceProcs : Race_open(p)
    \/ \E p \in RaceProcs : Race_dump(p)

SpecRace == InitRace /\ [][NextRace]_vars

----------------------------------------------------------------------------
(* utils.generate_gemini_response called on its own.  The generator is      *)
(* opaque: a call of generate_content returns a response with a text, a     *)
(* response whose text is empty, a response whose .text raises (a blocked   *)
(* answer), or raises itself.  A fixed sentence is a text of one item.      *)

ContextLimit == 150

GeminiOutcomes ==
    {[k |-> "text", text |-> Reply], [k |-> "empty"], [k |-> "blocked"], [k |-> "raises"]}

NotConnected == <<"I'm sorry, I couldn't connect to the AI service. Please check your API key.">>
NoProperResponse == <<"I apologize, but I couldn't generate a proper response. Please try again.">>
Trouble == <<"I'm having trouble responding right now. Please try again.">>
ErrorApology == <<"I apologize, but I encountered an error while generating a response. Please try again.">>

(* recent_messages = conversation_history[-6:]; one line for each of        *)
(* recent_messages[:-1]; msg["role"] raises for a message without a role.   *)
history_context(conversation_history) ==
    IF Len(conversation_history) > 1
    THEN LET n == Len(conversation_history)
             recent_messages == SubSeq(conversation_history, IF n > 6 THEN n - 5 ELSE 1, n)
         IN IF \E i \in 1..(Len(recent_messages) - 1) : "role" \notin DOMAIN recent_messages[i]
            THEN [raised |-> TRUE]
            ELSE [raised |-> FALSE,
                  lines |-> [i \in 1..(Len(recent_messages) - 1) |->
                      LET msg == recent_messages[i]
                      IN [role |-> IF msg.role = "user" THEN "User" ELSE "Assistant",
                          content |-> SubSeq(msg.content, 1,
                                             IF Len(msg.content) > ContextLimit
                                             THEN ContextLimit ELSE Len(msg.content)),
                          ellipsis |-> Len(msg.content) > ContextLimit]]]
    ELSE [raised |-> FALSE, lines |-> <<>>]

simple_prompt(user_message) == [kind |-> "simple", user_message |-> user_message]

(* Variant: no second call; the first failure gives the fixed sentence. *)
generate_gemini_response_once(user_message, emotion_analysis, conversation_history, gemini_model, first, second) ==
    IF gemini_model = "None"
    THEN [text |-> NotConnected, calls |-> <<>>, notices |-> {}]
    ELSE IF history_context(conversation_history).raised
    THEN [text |-> ErrorApology, calls |-> <<>>, notices |-> {"Error generating response"}]
    ELSE LET full_prompt == [kind |-> "full",
                             emotion |-> emotion_analysis.emotion,
                             intensity |-> emotion_analysis.intensity,
                             confidence |-> emotion_analysis.confidence,
                             history |-> history_context(conversation_history).lines,
                             user_message |-> user_message]
         IN CASE first.k = "text" ->
                     [text |-> first.text, calls |-> <<full_prompt>>, notices |-> {}]
              [] first.k = "empty" ->
                     [text |-> NoProperResponse, calls |-> <<full_prompt>>, notices |-> {}]
              [] OTHER ->
                     [text |-> Trouble, calls |-> <<full_prompt>>,
                      notices |-> {"Generation error"}]

(* generate_gemini_response: the text returned, the prompts given to       *)
(* generate_content in order, and the notices shown.                       *)
generate_gemini_response(user_message, emotion_analysis, conversation_history, gemini_model, first, second) ==
    IF gemini_model = "None"
    THEN [text |-> NotConnected, calls |-> <<>>, notices |-> {}]
    ELSE IF history_context(conversation_history).raised
    THEN [text |-> ErrorApology, calls |-> <<>>, notices |-> {"Error generating response"}]
    ELSE LET full_prompt == [kind |-> "full",
                             emotion |-> emotion_analysis.emotion,
                             intensity |-> emotion_analysis.intensity,
                             confidence |-> emotion_analysis.confidence,
                             history |-> history_context(conversation_history).lines,
                             user_message |-> user_message]
         IN CASE first.k = "text" ->
                     [text |-> first.text, calls |-> <<full_prompt>>, notices |-> {}]
              [] first.k = "empty" ->
                     [text |-> NoProperResponse, calls |-> <<full_prompt>>, notices |-> {}]
              [] OTHER ->
                     [text |-> IF second.k = "text" THEN second.text ELSE Trouble,
                      calls |-> <<full_prompt, simple_prompt(user_message)>>,
                      notices |-> {"Generation error"}]

(* The conversations the function is given: the message just sent alone,   *)
(* after one earlier turn, after more than six messages (one of them       *)
(* longer than the context limit), and after a stored message that has no  *)
(* role.                                                                   *)
GenHistories(user_message) ==
    LET sent == [role |-> "user", content |-> user_message,
                 emotion_analysis |-> analyze_emotion(user_message, Raises), timestamp |-> 1]
        long == [role |-> "assistant", content |-> Rep("B", ContextLimit + 1), timestamp |-> 0]
    IN {<<sent>>,
        OldTurn \o <<sent>>,
        OldTurn \o <<long>> \o OldTurn \o OldTurn \o <<sent>>,
        <<[content |-> Short, timestamp |-> 0]>> \o <<sent>>}

InitGen ==
    /\ mode = "gen"
    /\ pc = "none"
    /\ clock = 0
    /\ chat_history = EmptyMap
    /\ current_chat_id = None
    /\ messages = NoRef
    /\ heap = EmptyHeap
    /\ file = Absent
    /\ backups = [b \in {} |-> 0]
    /\ data_file = Absent
    /\ marker = Absent
    /\ user_id = "None"
    /\ expired = FALSE
    /\ made = 0
    /\ faulted = FALSE
    /\ \E user_message \in Prompts, gemini_model \in {"None", "model"},
          first \in GeminiOutcomes, second \in GeminiOutcomes :
       \E conversation_history \in GenHistories(user_message) :
          result = [k |-> "call", user_message |-> user_message,
                    emotion_analysis |-> analyze_emotion(user_message, Raises),
                    conversation_history |-> conversation_history,
                    gemini_model |-> gemini_model, first |-> first, second |-> second]
    /\ last = Ran("none", None, "none", {})

(* response = generate_gemini_response(prompt, emotion_analysis, messages, gemini_model) *)
Gen_call ==
    /\ mode = "gen" /\ result.k = "call"
    /\ \E response \in {generate_gemini_response(result.user_message, result.emotion_analysis,
                                                  result.conversation_history,
                                                  result.gemini_model,
                                                  result.first, result.second)} :
          /\ result' = [k |-> "response", call |-> result, value |-> response]
          /\ last' = Ran("generate", None, "none", response.notices)
    /\ UNCHANGED <<mode, pc, clock, chat_history, current_chat_id, messages, heap, file,
                   backups, data_file, marker, user_id, expired, made, faulted>>

SpecGen == InitGen /\ [][Gen_call]_vars

----------------------------------------------------------------------------
(* utils.get_chat_title called on its own, on message lists whose first     *)
(* content has every length up to two past the limit.                       *)

TitleContents ==
    {Rep("A", n) : n \in 0..(TitleLimit + 2)}
    \cup {Rep(EACUTE, n) : n \in (TitleLimit - 1)..(TitleLimit + 1)}
    \cup {Rep("A", TitleLimit - 1) \o <<" ", NEWLINE>>}

TitleMessages ==
    {<<>>, <<[role |-> "user", timestamp |-> 0]>>}
    \cup {<<[role |-> "user", content |-> c, timestamp |-> 0]>> : c \in TitleContents}
    \cup {<<[role |-> "user", content |-> c, timestamp |-> 0],
            [role |-> "assistant", content |-> Long, timestamp |-> 0]>> : c \in TitleContents}

InitTitle ==
    /\ mode = "title"
    /\ pc = "none"
    /\ clock = 0
    /\ chat_history = EmptyMap
    /\ current_chat_id = None
    /\ messages = NoRef
    /\ heap = EmptyHeap
    /\ file = Absent
    /\ backups = [b \in {} |-> 0]
    /\ data_file = Absent
    /\ marker = Absent
    /\ user_id = "None"
    /\ expired = FALSE
    /\ made = 0
    /\ faulted = FALSE
    /\ \E msgs \in TitleMessages : result = [k |-> "call", messages |-> msgs]
    /\ last = Ran("none", None, "none", {})

(* title = get_chat_title(messages) *)
Title_call ==
    /\ mode = "title" /\ result.k = "call"
    /\ result' = [k |-> "title", messages |-> result.messages,
                  value |-> get_chat_title(result.messages)]
    /\ last' = Ran("title", None, "none", {})
    /\ UNCHANGED <<mode, pc, clock, chat_history, current_chat_id, messages, heap, file,
                   backups, data_file, marker, user_id, expired, made, faulted>>

SpecTitle == InitTitle /\ [][Title_call]_vars

----------------------------------------------------------------------------
(* utils.analyze_emotion called on its own: texts that are empty, blank,    *)
(* short, and longer than the classifier's input; the model absent, not     *)
(* loaded, or loaded; and what the classifier may do.                       *)

EmotionOutcomes ==
    {Raises, Returns(<<>>)}
    \cup {Returns(<<[label |-> l, score |-> 80], [label |-> "fear", score |-> 20]>>) :
              l \in {"joy", "love", "surprise", "anger", "fear", "sadness", "neutral",
                     "JOY", "Sadness", "LABEL_1"}}
    \cup {Returns(<<[label |-> "anger", score |-> 50], [label |-> "joy", score |-> 50]>>),
          ReturnsNested(<< <<[label |-> "fear", score |-> 10],
                             [label |-> "surprise", score |-> 90]>> >>)}

EmotionTexts == {<<>>, <<" ">>, <<" ", NEWLINE>>, Short, Rep("A", InputLimit + 1)}

InitEmotion ==
    /\ mode = "emotion"
    /\ pc = "none"
    /\ clock = 0
    /\ chat_history = EmptyMap
    /\ current_chat_id = None
    /\ messages = NoRef
    /\ heap = EmptyHeap
    /\ file = Absent
    /\ backups = [b \in {} |-> 0]
    /\ data_file = Absent
    /\ marker = Absent
    /\ user_id = "None"
    /\ expired = FALSE
    /\ made = 0
    /\ faulted = FALSE
    /\ \E text \in EmotionTexts, model \in EmotionModels, outcome \in EmotionOutcomes :
          result = [k |-> "call", text |-> text, model |-> model, outcome |-> outcome]
    /\ last = Ran("none", None, "none", {})

(* emotion_analysis = analyze_emotion(prompt, st.session_state.emotion_data) *)
Emotion_call ==
    /\ mode = "emotion" /\ result.k = "call"
    /\ result' = [k |-> "annotation", call |-> result,
                  value |-> analyze_emotion_data(result.text, result.model, result.outcome),
                  calls |-> analyze_emotion_calls(result.text, result.model)]
    /\ last' = Ran("analyze", None, "none", {})
    /\ UNCHANGED <<mode, pc, clock, chat_history, current_chat_id, messages, heap, file,
                   backups, data_file, marker, user_id, expired, made, faulted>>

SpecEmotion == InitEmotion /\ [][Emotion_call]_vars

----------------------------------------------------------------------------
(* SessionManager.initialize step by step: the calls initialize ->          *)
(* _check_session_timeout -> clear_session -> initialize as frames of a     *)
(* call stack.  Time is in minutes; a call takes at most MaxElapsed of them. *)

NestNow == 3 * Timeout + MaxElapsed

NoKey == [k |-> "absent"]
NoneValue == [k |-> "None"]
At(t) == [k |-> "time", t |-> t]

Frame(fn, at) == [fn |-> fn, at |-> at]
Top(stack) == stack[Len(stack)]
Pop(stack) == SubSeq(stack, 1, Len(stack) - 1)
Jumped(stack, at) == [stack EXCEPT ![Len(stack)].at = at]
Nesting(stack) == Cardinality({i \in 1..Len(stack) : stack[i].fn = "initialize"})

InitNest ==
    /\ mode = "nest"
    /\ pc = "none"
    /\ clock = 0
    /\ chat_history = EmptyMap
    /\ current_chat_id = None
    /\ messages = NoRef
    /\ heap = EmptyHeap
    /\ file = Absent
    /\ backups = [b \in {} |-> 0]
    /\ data_file = Absent
    /\ marker = Absent
    /\ user_id = "None"
    /\ expired = FALSE
    /\ made = 0
    /\ faulted = FALSE
    /\ \E last_activity \in {NoKey, NoneValue}
                            \cup {At(NestNow - age) :
                                      age \in {0, Timeout - 1, Timeout, Timeout + 1, NestNow}},
          uid \in {"absent", "None", "user_a"},
          others \in BOOLEAN :
          result = [k |-> "nest", stack |-> <<Frame("initialize", "defaults")>>,
                    now |-> NestNow, elapsed |-> 0, last_activity |-> last_activity,
                    user_id |-> uid, others |-> others, warnings |-> 0, deepest |-> 1]
    /\ last = Ran("none", None, "none", {})

NestFrame ==
    UNCHANGED <<mode, pc, clock, chat_history, current_chat_id, messages, heap, file,
                backups, data_file, marker, user_id, expired, made, faulted>>

(* initialize: the loop over DEFAULTS and _initialize_components. *)
Nest_defaults ==
    /\ mode = "nest" /\ result.stack # <<>>
    /\ Top(result.stack) = Frame("initialize", "defaults")
    /\ result' = [result EXCEPT
                     !.last_activity = IF @ = NoKey THEN At(result.now) ELSE @,
                     !.user_id = IF @ = "absent" THEN "user_a" ELSE @,
                     !.others = TRUE,
                     !.stack = Jumped(@, "timeout")]
    /\ last' = Ran("defaults", None, "none", {})
    /\ NestFrame

(* initialize: cls._check_session_timeout() *)
Nest_call_check ==
    /\ mode = "nest" /\ result.stack # <<>>
    /\ Top(result.stack) = Frame("initialize", "timeout")
    /\ result' = [result EXCEPT
                     !.stack = Append(Jumped(@, "load"), Frame("_check_session_timeout", "test"))]
    /\ last' = Ran("call_check", None, "none", {})
    /\ NestFrame

(* _check_session_timeout: the test, and the call of clear_session. *)
Nest_check ==
    /\ mode = "nest" /\ result.stack # <<>>
    /\ Top(result.stack) = Frame("_check_session_timeout", "test")
    /\ IF /\ result.last_activity.k = "time"
          /\ result.now - result.last_activity.t > Timeout
       THEN /\ Len(result.stack) < MaxFrames
            /\ result' = [result EXCEPT
                             !.stack = Append(Jumped(@, "warning"),
                                              Frame("clear_session", "start"))]
       ELSE result' = [result EXCEPT !.stack = Pop(@)]
    /\ last' = Ran("check", None, "none", {})
    /\ NestFrame

(* Variant: clear_session keeps last_activity as it keeps user_id. *)
Nest_clear_keeps_activity ==
    /\ mode = "nest" /\ result.stack # <<>>
    /\ Top(result.stack) = Frame("clear_session", "start")
    /\ Len(result.stack) < MaxFrames
    /\ result' = [result EXCEPT
                     !.user_id = IF @ = "absent" THEN "None" ELSE @,
                     !.others = FALSE,
                     !.stack = Append(Jumped(@, "called"), Frame("initialize", "defaults")),
                     !.deepest = IF Nesting(result.stack) + 1 > @
                                 THEN Nesting(result.stack) + 1 ELSE @]
    /\ last' = Ran("clear", None, "none", {})
    /\ NestFrame

(* clear_session: every key deleted, user_id put back, initialize called. *)
Nest_clear ==
    /\ mode = "nest" /\ result.stack # <<>>
    /\ Top(result.stack) = Frame("clear_session", "start")
    /\ Len(result.stack) < MaxFrames
    /\ result' = [result EXCEPT
                     !.user_id = IF @ = "absent" THEN "None" ELSE @,
                     !.last_activity = NoKey,
                     !.others = FALSE,
                     !.stack = Append(Jumped(@, "called"), Frame("initialize", "defaults")),
                     !.deepest = IF Nesting(result.stack) + 1 > @
                                 THEN Nesting(result.stack) + 1 ELSE @]
    /\ last' = Ran("clear", None, "none", {})
    /\ NestFrame

(* A call returns: initialize after _load_persisted_data, clear_session     *)
(* after its initialize, _check_session_timeout after its st.warning.       *)
Nest_return ==
    /\ mode = "nest" /\ result.stack # <<>>
    /\ Top(result.stack).at \in {"load", "called", "warning"}
    /\ result' = [result EXCEPT
                     !.stack = Pop(@),
                     !.warnings = IF Top(result.stack).at = "warning" THEN @ + 1 ELSE @]
    /\ last' = Ran("return", None, "none", {})
    /\ NestFrame

(* A minute passes while initialize runs. *)
Nest_tick ==
    /\ mode = "nest" /\ result.stack # <<>>
    /\ result.elapsed < MaxElapsed
    /\ result' = [result EXCEPT !.now = @ + 1, !.elapsed = @ + 1]
    /\ last' = Ran("tick", None, "none", {})
    /\ NestFrame

NextNest ==
    \/ Nest_defaults
    \/ Nest_call_check
    \/ Nest_check
    \/ Nest_clear
    \/ Nest_return
    \/ Nest_tick

SpecNest == InitNest /\ [][NextNest]_vars

(* The script thread runs initialize to its end. *)
SpecNestFair == SpecNest /\ WF_vars(NextNest)

----------------------------------------------------------------------------
(* The connection to the generator in the single-user app: one run of the   *)
(* script is main() up to the chat input.  GEMINI_API_KEY is in the         *)
(* environment or not; the service accepts the key or not.                  *)

(* utils.setup_gemini_api is defined without parameters: a call that passes *)
(* an argument raises TypeError before the body runs.                       *)
setup_gemini_api(args, env_key, service_ok) ==
    IF Len(args) # 0 THEN [raised |-> "TypeError", value |-> "None"]
    ELSE IF ~env_key THEN [raised |-> "none", value |-> "None"]
    ELSE [raised |-> "none", value |-> IF service_ok THEN "model" ELSE "None"]

(* sidebar.handle_api_connection(api_key) up to its st.error; s is the pair *)
(* api_connected, gemini_model of st.session_state.                         *)
handle_api_connection(s, api_key, service_ok) ==
    IF api_key /\ ~s.api_connected
    THEN LET model == setup_gemini_api(<<"api_key">>, api_key, service_ok)
         IN IF model.raised # "none" THEN [s EXCEPT !.raised = model.raised]
            ELSE IF model.value # "None"
            THEN [s EXCEPT !.gemini_model = model.value, !.api_connected = TRUE]
            ELSE [s EXCEPT !.gemini_model = "None", !.api_connected = FALSE]
    ELSE s

(* app.setup_api_connection(api_key) *)
setup_api_connection(s, api_key, service_ok) ==
    IF s.raised = "none" /\ api_key /\ ~s.api_connected
    THEN LET model == setup_gemini_api(<<"api_key">>, api_key, service_ok)
         IN IF model.raised # "none" THEN [s EXCEPT !.raised = model.raised]
            ELSE IF model.value # "None"
            THEN [s EXCEPT !.gemini_model = model.value, !.api_connected = TRUE]
            ELSE [s EXCEPT !.api_connected = FALSE]
    ELSE s

InitApi ==
    /\ mode = "api"
    /\ pc = "none"
    /\ clock = 0
    /\ chat_history = EmptyMap
    /\ current_chat_id = None
    /\ messages = NoRef
    /\ heap = EmptyHeap
    /\ file = Absent
    /\ backups = [b \in {} |-> 0]
    /\ data_file = Absent
    /\ marker = Absent
    /\ user_id = "None"
    /\ expired = FALSE
    /\ made = 0
    /\ faulted = FALSE
    /\ \E api_key \in BOOLEAN :
          result = [k |-> "api", api_key |-> api_key, api_connected |-> FALSE,
                    gemini_model |-> "None", raised |-> "none", retry |-> FALSE,
                    runs |-> 0]
    /\ last = Ran("none", None, "none", {})

(* One run of main(): initialize_session_state, render_sidebar with         *)
(* handle_api_connection, setup_api_connection.  The retry button exists    *)
(* after a run that showed the connection error; clicked, it clears both    *)
(* fields before the run.                                                   *)
Api_run(service_ok, click_retry) ==
    /\ mode = "api" /\ result.runs < MaxTurns
    /\ click_retry => result.retry
    /\ \E s0 \in {[result EXCEPT !.raised = "none"]} :
       \E s1 \in {IF click_retry
                  THEN [s0 EXCEPT !.api_connected = FALSE, !.gemini_model = "None"]
                  ELSE s0} :
       \E s2 \in {handle_api_connection(s1, s1.api_key, service_ok)} :
       \E s3 \in {setup_api_connection(s2, s2.api_key, service_ok)} :
          result' = [s3 EXCEPT !.retry = (s2.raised = "none" /\ s2.api_key
                                          /\ ~s2.api_connected),
                               !.runs = @ + 1]
    /\ last' = Ran("run", None, "none", {})
    /\ UNCHANGED <<mode, pc, clock, chat_history, current_chat_id, messages, heap, file,
                   backups, data_file, marker, user_id, expired, made, faulted>>

SpecApi == InitApi /\ [][\E service_ok, click_retry \in BOOLEAN :
                             Api_run(service_ok, click_retry)]_vars

(* With the call as written no run ever connects. *)
ApiNeverConnected == mode = "api" => ~result.api_connected

ApiConnectedHasModel ==
    mode = "api" => (result.api_connected => result.gemini_model # "None")

----------------------------------------------------------------------------
(* SessionManager.export_user_data and import_user_data, with the user's    *)
(* preferences and the files data/users/<user_id>/preferences.json held in  *)
(* result.                                                                  *)

DefaultPreferences ==
    [theme |-> "dark", notifications |-> TRUE, anonymous_mode |-> FALSE,
     voice_enabled |-> TRUE]

(* export_user_data: the dict holds the session's own objects. *)
export_user_data ==
    [user_id |-> user_id,
     export_date |-> clock,
     chat_history |-> chat_history,
     preferences |-> result.user_preferences,
     sessions |-> [total |-> Cardinality(DOMAIN chat_history),
                   current |-> current_chat_id]]

(* save_preferences: the preferences files afterwards; a failure is passed  *)
(* over in silence.                                                         *)
SM_save_preferences(user_preferences, write_ok) ==
    IF write_ok
    THEN [u \in DOMAIN result.preferences \cup {user_id} |->
             IF u = user_id THEN Json(user_preferences) ELSE result.preferences[u]]
    ELSE result.preferences

InitImport ==
    /\ mode = "sm"
    /\ pc = "none"
    /\ clock = 0
    /\ chat_history = EmptyMap
    /\ current_chat_id = None
    /\ messages = NoRef
    /\ heap = EmptyHeap
    /\ backups = [b \in {} |-> 0]
    /\ user_id = "None"
    /\ expired = FALSE
    /\ made = 0
    /\ faulted = FALSE
    /\ last = Ran("none", None, "none", {})
    /\ file = Absent
    /\ data_file \in {Absent, Bad("garbage"), Json(OldDoc)}
    /\ marker \in IF data_file.k = "json" THEN {Absent, Text(<<"user_1">>)} ELSE {Absent}
    /\ result = [k |-> "prefs", user_preferences |-> DefaultPreferences,
                 preferences |-> [u \in {} |-> Absent], returned |-> "none"]

(* import_user_data(data): both fields assigned from the dict, then         *)
(* save_chat_history and save_preferences, each swallowing its own          *)
(* exception, then return True.                                             *)
SM_import_user_data(data, outcome, write_ok) ==
    /\ mode = "sm" /\ pc = "idle" /\ result.k = "prefs"
    /\ outcome = "ok" \/ write_ok
    /\ IF write_ok THEN SM_Io(outcome) ELSE Io(FALSE)
    /\ chat_history' = IF "chat_history" \in DOMAIN data THEN data.chat_history
                       ELSE chat_history
    /\ \E user_preferences \in {IF "preferences" \in DOMAIN data THEN data.preferences
                                ELSE result.user_preferences} :
          result' = [result EXCEPT
                        !.user_preferences = user_preferences,
                        !.preferences = SM_save_preferences(user_preferences, write_ok),
                        !.returned = TRUE]
    /\ data_file' = SM_save_file(chat_history', heap, outcome)
    /\ last' = Ran("sm_import", None, SM_saved(outcome), SM_save_notices(outcome))
    /\ UNCHANGED <<mode, pc, clock, current_chat_id, messages, heap, appdisk, marker,
                   user_id, expired, made>>

NextImport ==
    \/ NextSM
    \/ \E outcome \in SaveOutcomes, write_ok \in BOOLEAN :
           SM_import_user_data(export_user_data, outcome, write_ok)

SpecImport == InitImport /\ [][NextImport]_vars

----------------------------------------------------------------------------
(* One scenario of the single-user deployment: an empty store, the session  *)
(* starts, one message is sent and answered, "New Chat" is clicked.         *)

E2EPrompts == Prompts \cup {Rep("A", TitleLimit), <<EACUTE>>}

InitE2E ==
    /\ mode = "app"
    /\ Common
    /\ file \in {Absent, Json(EmptyMap)}
    /\ data_file = Absent
    /\ marker = Absent

(* A second passes between two steps of the scenario. *)
Pass ==
    /\ clock < MaxClock
    /\ clock' = clock + 1
    /\ UNCHANGED <<result, mode, pc, chat_history, current_chat_id, messages, heap, appdisk,
                   smstate, faulted, last>>

NextE2E ==
    \/ last.op = "none" /\ \E rename_ok \in BOOLEAN : initialize_session_state(rename_ok)
    \/ last.op = "start" /\ \E prompt \in E2EPrompts, outcome \in ClassifierOutcomes \cup {Raises} :
                                handle_user_input_user(prompt, outcome)
    \/ last.op = "append_user" /\ \E outcome \in SaveOutcomes :
                                handle_user_input_reply(Reply, outcome)
    \/ last.op = "append_assistant" /\ \E outcome \in SaveOutcomes : handle_new_chat(outcome)
    \/ Pass

SpecE2E == InitE2E /\ [][NextE2E]_vars

----------------------------------------------------------------------------
(* Properties *)

IsPrefix(s, t) == Len(s) <= Len(t) /\ SubSeq(t, 1, Len(s)) = s

(* The active session's message list, <<>> when there is no session. *)
Active(h, m) == IF m = NoRef THEN <<>> ELSE h[m]

TimestampsSorted(s) ==
    \A i \in 1..Len(s) : \A j \in i..Len(s) : s[i].timestamp <= s[j].timestamp

(* The messages a file holds for a chat. *)
OnDisk(f, uid, id) ==
    IF f.k # "json" THEN [found |-> FALSE]
    ELSE IF uid = "None"
    THEN (IF id \in DOMAIN f.doc
          THEN [found |-> TRUE, messages |-> JsonLoad(f.doc)[id].messages]
          ELSE [found |-> FALSE])
    ELSE IF uid \in DOMAIN f.doc /\ id \in DOMAIN f.doc[uid]
    THEN [found |-> TRUE, messages |-> JsonLoad(f.doc[uid])[id].messages]
    ELSE [found |-> FALSE]

(* Steps that give the active session a new chat_id / that archive. *)
C1_Creates ==
    \/ last'.op \in {"start", "new"}
    \/ last'.op = "delete" /\ last'.arg = current_chat_id

C1_Archives == last'.op \in {"append_assistant", "new", "switch"}

(* C1: no two sessions share a chat_id.  A step that starts a session, opens *)
(* a new chat or deletes the active chat leaves an active chat_id that is    *)
(* no key of the map (where the session that was active is, if it had       *)
(* messages); and a step that archives never replaces a record by one that  *)
(* does not continue it.                                                     *)
C1_UniqueChatIds ==
    [][ /\ C1_Creates => current_chat_id' \notin DOMAIN chat_history'
        /\ C1_Archives =>
             \A id \in DOMAIN chat_history \cap DOMAIN chat_history' :
                 IsPrefix(heap[chat_history[id].messages], heap'[chat_history'[id].messages])
      ]_vars

(* Steps that open a new chat or switch to an archived one. *)
C2_Replaces ==
    \/ last'.op \in {"new", "switch", "sm_new"}
    \/ last'.op = "sm_switch" /\ last'.arg \in DOMAIN chat_history

(* C2: opening a new chat or switching to an archived chat while the active *)
(* session has messages first stores that session in the map under its      *)
(* chat_id and, unless the write fails, in the file.                         *)
C2_ArchivesBeforeReplacing ==
    [][ (C2_Replaces /\ Active(heap, messages) # <<>>) =>
            /\ current_chat_id \in DOMAIN chat_history'
            /\ heap'[chat_history'[current_chat_id].messages] = heap[messages]
            /\ last'.saved # "failed" =>
                 \E f \in {IF mode = "sm" THEN data_file' ELSE file'} :
                 \E on_disk \in {OnDisk(f, user_id, current_chat_id)} :
                     on_disk.found /\ on_disk.messages = heap[messages]
      ]_vars

(* C3: a history written by save_chat_history without error is what         *)
(* load_chat_history returns, value for value.                               *)
C3_RoundTrip ==
    (last.op = "load" /\ last.saved = "ok") =>
        result.value = Deep(chat_history, heap)

C3_Witness ==
    /\ last.op = "load" /\ last.saved = "ok"
    /\ result.value = Deep(chat_history, heap)
    /\ \E id \in DOMAIN result.value :
          /\ Len(result.value[id].messages) = 2
          /\ result.value[id].messages[1].content = <<BSLASH, EACUTE>>
          /\ result.value[id].messages[1].emotion_analysis.emotion = "fear"
          /\ result.value[id].messages[2].content = Reply

(* C4: a load that finds a file that is not JSON returns the empty map and  *)
(* leaves a backup file holding the original bytes.                          *)
C4_CorruptionRecovery ==
    [][ (last'.op \in {"start", "load"} /\ file.k = "bad") =>
            /\ (last'.op = "start" => chat_history' = EmptyMap)
            /\ (last'.op = "load" => result'.value = EmptyMap)
            /\ \E b \in DOMAIN backups' : backups'[b] = file.raw
      ]_vars

(* Steps that replace the active session. *)
C5_Replaces ==
    \/ last'.op \in {"start", "restart", "new", "switch"}
    \/ last'.op = "delete" /\ last'.arg = current_chat_id

(* C5: an append makes the active list one longer and keeps what it held,   *)
(* timestamps never decrease along the list, and a step that does not       *)
(* replace the active session leaves its messages as they were.             *)
C5_AppendOnly ==
    [][ \E old \in {Active(heap, messages)} :
        \E new \in {Active(heap', messages')} :
           /\ TimestampsSorted(new)
           /\ IF last'.op \in {"append_user", "append_assistant"}
              THEN Len(new) = Len(old) + 1 /\ IsPrefix(old, new)
              ELSE C5_Replaces \/ new = old
      ]_vars

C5_Witness ==
    /\ last.op = "append_assistant"
    /\ Len(Active(heap, messages)) = 4
    /\ heap[messages][1].timestamp < heap[messages][4].timestamp

(* C6: from an empty store, after start, one message sent and answered, and *)
(* "New Chat", the map holds exactly one record: its messages are the user  *)
(* message with its emotion annotation and the reply, its title is the user's text when that has at     *)
(* most 30 characters (its first 30 characters and "..." otherwise).        *)
C6_EndToEnd ==
    last.op = "new" =>
        \E id \in DOMAIN chat_history :
        \E rec \in {Deep(chat_history, heap)[id]} :
           /\ DOMAIN chat_history = {id}
           /\ Len(rec.messages) = 2
           /\ rec.messages[1].role = "user" /\ rec.messages[2].role = "assistant"
           /\ "emotion_analysis" \in DOMAIN rec.messages[1]
           /\ rec.messages[1].emotion_analysis.emotion \in {"fear", "neutral"}
           /\ rec.messages[1].content \in E2EPrompts
           /\ rec.messages[2].content = Reply
           /\ \E text \in {rec.messages[1].content} :
                 rec.title = IF Len(text) <= TitleLimit THEN text
                             ELSE SubSeq(text, 1, TitleLimit) \o Ellipsis

C6_Witness ==
    /\ last.op = "new"
    /\ Cardinality(DOMAIN chat_history) = 1
    /\ \E id \in DOMAIN chat_history :
          /\ chat_history[id].title = Rep("A", TitleLimit)
          /\ Len(heap[chat_history[id].messages]) = 2
    /\ Active(heap, messages) = <<>>

(* C7: "New Chat" on a session without messages adds no record: the map and *)
(* the files are what they were.                                            *)
C7_EmptyDiscarded ==
    [][ (last'.op \in {"new", "sm_new"} /\ Active(heap, messages) = <<>>) =>
            /\ Deep(chat_history', heap') = Deep(chat_history, heap)
            /\ file' = file
            /\ data_file' = data_file
      ]_vars

C7_Witness ==
    /\ last.op = "new" /\ last.saved = "none"
    /\ Cardinality(DOMAIN chat_history) = 1
    /\ current_chat_id \notin DOMAIN chat_history
    /\ Active(heap, messages) = <<>>

(* C8: deleting the active chat leaves an active session without messages   *)
(* whose chat_id is not the deleted one.                                     *)
C8_DeleteActiveResets ==
    [][ (last'.op \in {"delete", "sm_delete"} /\ last'.arg = current_chat_id) =>
            /\ Active(heap', messages') = <<>>
            /\ current_chat_id' # last'.arg
      ]_vars

(* C9: switch_chat to an id the map does not hold changes neither the       *)
(* active chat_id nor the active messages, and signals "Chat not found".    *)
C9_SwitchMissing ==
    [][ (last'.op = "sm_switch" /\ last'.arg \notin DOMAIN chat_history) =>
            /\ current_chat_id' = current_chat_id
            /\ messages' = messages
            /\ heap' = heap
            /\ chat_history' = chat_history
            /\ "Chat not found" \in last'.notices
      ]_vars

C9_Witness ==
    /\ last.op = "sm_switch" /\ last.arg = Missing
    /\ "Chat not found" \in last.notices
    /\ current_chat_id \in DOMAIN chat_history
    /\ Active(heap, messages) # <<>>

(* A switch to a chat the map holds. *)
C10_Switches ==
    last'.op \in {"switch", "sm_switch"} /\ last'.arg \in DOMAIN chat_history

(* C10: switching to an archived chat makes it the active chat with its     *)
(* archived messages, and the session that was active, if it had messages,  *)
(* is in the map under its chat_id and, unless the write fails, in the file. *)
C10_SwitchArchives ==
    [][ C10_Switches =>
            /\ current_chat_id' = last'.arg
            /\ last'.arg \in DOMAIN chat_history'
            /\ heap'[messages'] = heap'[chat_history'[last'.arg].messages]
            /\ Active(heap, messages) # <<>> =>
                 /\ current_chat_id \in DOMAIN chat_history'
                 /\ heap'[chat_history'[current_chat_id].messages] = heap[messages]
                 /\ last'.saved # "failed" =>
                      \E f \in {IF mode = "sm" THEN data_file' ELSE file'} :
                      \E on_disk \in {OnDisk(f, user_id, current_chat_id)} :
                          on_disk.found /\ on_disk.messages = heap[messages]
      ]_vars

(* C11: the first run of a session (start) leaves the history loaded from  *)
(* the store, an active session without messages and a chat_id that is not *)
(* None, with app.initialize_session_state and SessionManager.initialize.  *)
C11_StartState ==
    [][ (pc = "none" /\ last'.op \in {"start", "sm_initialize"}) =>
            /\ pc' = "idle"
            /\ Active(heap', messages') = <<>>
            /\ current_chat_id' # None
            /\ Deep(chat_history', heap') =
                   IF mode = "app" THEN load_chat_history
                   ELSE IF SM_persisted(user_id').found THEN SM_persisted(user_id').value
                   ELSE EmptyMap
      ]_vars

(* The history a file holds for the user of the session. *)
Persisted(f, uid) ==
    IF f.k # "json" THEN [found |-> FALSE]
    ELSE IF uid = "None" THEN [found |-> TRUE, value |-> JsonLoad(f.doc)]
    ELSE IF uid \in DOMAIN f.doc THEN [found |-> TRUE, value |-> JsonLoad(f.doc[uid])]
    ELSE [found |-> FALSE]

(* C12: a delete removes exactly the given key: the other records are what *)
(* they were, the active session is untouched unless it is the deleted     *)
(* chat, and a save that reports no failure leaves the resulting map in    *)
(* the file; a delete of a key the map does not hold changes nothing.      *)
C12_DeleteFrame ==
    [][ last'.op \in {"delete", "sm_delete"} =>
          IF last'.arg \in DOMAIN chat_history
          THEN /\ DOMAIN chat_history' = DOMAIN chat_history \ {last'.arg}
               /\ \A id \in DOMAIN chat_history' :
                     Deep(chat_history', heap')[id] = Deep(chat_history, heap)[id]
               /\ last'.arg # current_chat_id =>
                     /\ current_chat_id' = current_chat_id
                     /\ Active(heap', messages') = Active(heap, messages)
               /\ last'.saved # "none"
               /\ last'.saved = "ok" =>
                     \E on_disk \in {Persisted(IF mode = "sm" THEN data_file' ELSE file',
                                               user_id)} :
                         on_disk.found /\ on_disk.value = Deep(chat_history', heap')
          ELSE /\ UNCHANGED <<chat_history, heap, messages, current_chat_id, file, data_file>>
               /\ last'.saved = "none"
      ]_vars

C12_Witness ==
    /\ last.op = "sm_delete" /\ last.saved = "ok"
    /\ last.arg # current_chat_id
    /\ DOMAIN chat_history # {}
    /\ current_chat_id \in DOMAIN chat_history
    /\ Active(heap, messages) # <<>>
    /\ Persisted(data_file, user_id).found
    /\ "user_2" \in DOMAIN data_file.doc

----------------------------------------------------------------------------
(* sidebar.render_chat_history: the body under "Confirm Clear All".  The    *)
(* confirm button is created inside the branch of the "Clear All History"  *)
(* button; SpecClear is the deployment in which both report a click.       *)
render_chat_history_clear(outcome) ==
    /\ mode = "app" /\ pc = "idle"
    /\ DOMAIN chat_history # {}
    /\ Io(outcome = "ok")
    /\ file' = save_chat_history(EmptyMap, heap, outcome)
    /\ Commit(EmptyMap, messages, heap)
    /\ last' = Ran("clear", None, Saved(outcome),
                   SaveNotices(outcome) \cup {"All chat history cleared!"})
    /\ UNCHANGED <<result, mode, pc, clock, current_chat_id, backups, smstate>>

NextClear ==
    \/ Next
    \/ \E outcome \in SaveOutcomes : render_chat_history_clear(outcome)

SpecClear == Init /\ [][NextClear]_vars

(* Sends, loads and restarts of the single-user deployment, with the sends *)
(* that find a collaborator unavailable.                                   *)
NextRefuse ==
    \/ \E rename_ok \in BOOLEAN : initialize_session_state(rename_ok)
    \/ \E prompt \in Prompts, outcome \in ClassifierOutcomes :
           handle_user_input_user(prompt, outcome)
    \/ \E outcome \in SaveOutcomes : handle_user_input_reply(Reply, outcome)
    \/ \E prompt \in Prompts, api_ready \in BOOLEAN, model_available \in BOOLEAN :
           handle_user_input_refused(prompt, api_ready, model_available)
    \/ \E chat_id \in DOMAIN chat_history, outcome \in SaveOutcomes :
           render_chat_item_load(chat_id, outcome)
    \/ Restart

SpecRefuse == Init /\ [][NextRefuse]_vars

(* C13: clearing the history leaves an empty map, which a save that reports *)
(* no failure leaves in the file, and a fresh active session: no messages   *)
(* and a new chat_id.                                                       *)
C13_ClearAll ==
    [][ last'.op = "clear" =>
            /\ chat_history' = EmptyMap
            /\ last'.saved = "ok" => file' = Json(EmptyMap)
            /\ Active(heap', messages') = <<>>
            /\ current_chat_id' # current_chat_id
      ]_vars

(* What st.session_state holds of the conversation. *)
Memory(history, h, msgs, id) == <<Deep(history, h), Active(h, msgs), id>>

(* C14: a save that fails loses nothing held in memory.  A failing save on *)
(* its own changes neither the map nor the active session; a turn whose    *)
(* save fails is in the active list and in the map; and the next run of    *)
(* SessionManager.initialize (no timeout) leaves map and session as the    *)
(* failed save left them.                                                  *)
C14_FailedSaveKeepsMemory ==
    [][ \E before \in {Memory(chat_history, heap, messages, current_chat_id)} :
        \E after \in {Memory(chat_history', heap', messages', current_chat_id')} :
           /\ (last'.op = "sm_save" /\ last'.saved = "failed") => after = before
           /\ (last'.op = "append_assistant" /\ last'.saved = "failed") =>
                 /\ Len(after[2]) = Len(before[2]) + 1 /\ IsPrefix(before[2], after[2])
                 /\ current_chat_id \in DOMAIN chat_history'
                 /\ after[1][current_chat_id].messages = after[2]
           /\ (last.saved = "failed" /\ last'.op = "sm_initialize"
                  /\ pc = "idle" /\ ~expired) => after = before
      ]_vars

(* C15: a save is atomic: afterwards the file is either what it was or the *)
(* complete new map, never an empty, truncated or unparseable file.        *)
C15_AtomicSave ==
    [][ last'.saved \in {"ok", "failed"} =>
          \E before \in {IF mode = "sm" THEN data_file ELSE file} :
          \E after \in {IF mode = "sm" THEN data_file' ELSE file'} :
             \/ after = before
             \/ \E on_disk \in {Persisted(after, user_id)} :
                   on_disk.found /\ on_disk.value = Deep(chat_history', heap')
      ]_vars

(* C16: a run of SessionManager.initialize more than 60 minutes after the  *)
(* last activity keeps the user_id and puts every other field back at its  *)
(* start value: no messages, current_chat_id None, the history the store   *)
(* holds for the user.                                                     *)
C16_TimeoutReset ==
    [][ (last'.op = "sm_initialize" /\ pc = "idle" /\ expired) =>
            /\ user_id' = user_id
            /\ "Your session has timed out" \in last'.notices
            /\ ~expired'
            /\ Active(heap', messages') = <<>>
            /\ current_chat_id' = None
            /\ Deep(chat_history', heap') =
                   IF SM_persisted(user_id).found THEN SM_persisted(user_id).value
                   ELSE EmptyMap
      ]_vars

(* The messages the store holds for the user. *)
StoredMessages(f, uid) ==
    IF Persisted(f, uid).found
    THEN UNION {{Persisted(f, uid).value[id].messages[i] :
                     i \in 1..Len(Persisted(f, uid).value[id].messages)} :
                id \in DOMAIN Persisted(f, uid).value}
    ELSE {}

(* C17: when the timeout invalidates the session, every message of the     *)
(* active session is already in the persisted store.                       *)
C17_TimeoutAfterPersist ==
    [][ (last'.op = "sm_initialize" /\ pc = "idle" /\ expired) =>
            \A i \in 1..Len(Active(heap, messages)) :
                Active(heap, messages)[i] \in StoredMessages(data_file, user_id)
      ]_vars

(* C18: a SessionManager save that succeeds writes a document in which the *)
(* user's entry is the user's map in memory and every other user's entry   *)
(* is what the file held before.                                           *)
C18_ReadMergeWrite ==
    [][ (last'.op \in {"sm_save", "sm_delete"} /\ last'.saved = "ok") =>
            /\ data_file'.k = "json"
            /\ DOMAIN data_file'.doc =
                   {user_id} \cup (IF data_file.k = "json" THEN DOMAIN data_file.doc ELSE {})
            /\ JsonLoad(data_file'.doc[user_id]) = Deep(chat_history', heap')
            /\ \A u \in DOMAIN data_file'.doc \ {user_id} :
                   JsonLoad(data_file'.doc[u]) = JsonLoad(data_file.doc[u])
      ]_vars

C18_Witness ==
    /\ last.op = "sm_save" /\ last.saved = "ok"
    /\ user_id = "user_1"
    /\ data_file.k = "json"
    /\ DOMAIN data_file.doc = {"user_1", "user_2"}
    /\ JsonLoad(data_file.doc["user_2"]) = OldHistory(2)
    /\ ChatId(0, 1) \in DOMAIN chat_history
    /\ Len(heap[chat_history[ChatId(0, 1)].messages]) = 4
    /\ JsonLoad(data_file.doc["user_1"]) = Deep(chat_history, heap)

(* Both saves of the race have written. *)
RaceDone == mode = "race" /\ \A p \in RaceProcs : result.proc[p].pc = "done"

(* One save ran from its read to its write before the other began. *)
RaceSequential == result.log \in {<<1, 1, 1, 2, 2, 2>>, <<2, 2, 2, 1, 1, 1>>}

RaceLater == result.log[Len(result.log)]

RaceUpdated(p) ==
    /\ Persisted(data_file, RaceUser(p)).found
    /\ Persisted(data_file, RaceUser(p)).value = result.proc[p].chat_history

(* C19: when two processes have both saved, for two different users, a    *)
(* file that is a document is the whole document of the later writer (its *)
(* own read of the file with its own entry replaced); when the two saves  *)
(* did not interleave, the file holds both users' updates.                *)
C19_LaterWriterWins ==
    RaceDone =>
        /\ data_file.k = "json" =>
               data_file.doc = SM_document(result.proc[RaceLater].existing_data,
                                           RaceUser(RaceLater),
                                           result.proc[RaceLater].chat_history)
        /\ RaceSequential => \A p \in RaceProcs : RaceUpdated(p)

(* Interleaved saves: both read, then each opened and wrote; the final    *)
(* file has the later writer's update and lacks the earlier writer's.     *)
C19_Witness ==
    /\ RaceDone
    /\ result.log = <<1, 2, 1, 1, 2, 2>>
    /\ data_file.k = "json"
    /\ RaceUpdated(2)
    /\ ~RaceUpdated(1)
    /\ result.proc[1].chat_history # EmptyMap

(* C20: a malformed multi-user file is never fatal: it has been moved to a *)
(* backup by the time the session saves, and a save_chat_history in a run  *)
(* without any other I/O fault succeeds, so that a later load returns what *)
(* was saved.                                                              *)
C20_SMCorruptionRecovery ==
    [][ (last'.op = "sm_save" /\ ~faulted') =>
            /\ data_file.k # "bad"
            /\ last'.saved = "ok"
            /\ "Could not save chat history" \notin last'.notices
            /\ Persisted(data_file', user_id') =
                   [found |-> TRUE, value |-> Deep(chat_history', heap')]
      ]_vars

(* What a successful read of data/.user_id yields. *)
StoredText(m) == IF m.k = "text" THEN Str(Strip(m.text)) ELSE ""

(* C21: the user identifier is stable.  A first run of a browser session   *)
(* that reads an identifier from data/.user_id takes it, stripped, and     *)
(* leaves the file as it is; one that finds the file absent, unreadable or *)
(* blank takes a new identifier and, when the write succeeds, the file     *)
(* then holds it.  Later runs of the session keep the identifier, nothing  *)
(* else writes the file, and after a start without I/O failure the file    *)
(* yields the session's identifier, which is what the next start reads.    *)
C21_StableUserId ==
    [][ /\ (last'.op = "sm_initialize" /\ pc = "none") =>
              /\ (faulted' = faulted /\ StoredText(marker) # "") => last'.saved = "none"
              /\ last'.saved = "none" =>
                    /\ StoredText(marker) # ""
                    /\ user_id' = StoredText(marker)
                    /\ marker' = marker
              /\ last'.saved # "none" =>
                    /\ StoredText(marker) = "" \/ faulted' # faulted
                    /\ user_id' = NewUserId
                    /\ user_id' \notin {"", "user_1"}
              /\ last'.saved = "ok" => marker' = Text(<<user_id'>>)
              /\ last'.saved # "failed" => StoredText(marker') = user_id'
        /\ (last'.op = "sm_initialize" /\ pc = "idle") =>
              (user_id' = user_id /\ marker' = marker)
        /\ last'.op # "sm_initialize" => marker' = marker
        /\ (last'.op \notin {"sm_initialize", "restart"}) => user_id' = user_id
      ]_vars

C21_Witness ==
    /\ last.op = "sm_initialize" /\ pc = "idle"
    /\ marker = Text(<<" ", "user_1", NEWLINE>>)
    /\ user_id = "user_1"
    /\ ~faulted

(* C22: a failure to write data/.user_id is not fatal.  The start that     *)
(* generated the identifier completes with it, the runs of that browser    *)
(* session keep it, the file is left without an identifier, and the next   *)
(* start, finding none, generates an identifier different from it.         *)
C22_StoreFailureNotFatal ==
    [][ /\ (last'.op = "sm_initialize" /\ pc = "none" /\ last'.saved = "failed") =>
              /\ pc' = "idle"
              /\ user_id' \notin {"", "None"}
              /\ marker' = marker
              /\ made' = made + 1
        /\ (last'.op = "sm_initialize" /\ pc = "idle") => user_id' = user_id
        /\ (last'.op \notin {"sm_initialize", "restart"}) =>
              (user_id' = user_id /\ made' = made)
        /\ (last'.op = "sm_initialize" /\ pc = "none" /\ last'.saved # "none" /\ made = 1) =>
              user_id' # "user_a"
        /\ (made = 0 /\ made' = 1) => user_id' = "user_a"
      ]_vars

C22_Witness ==
    /\ last.op = "sm_initialize" /\ pc = "idle"
    /\ made = 2 /\ faulted
    /\ user_id = "user_b"
    /\ marker = Text(<<"user_b">>)

(* C23: a send that finds the response generator not connected or the     *)
(* emotion model not loaded is refused with a message: the active          *)
(* session's messages, its chat id, the map and the file stay as they      *)
(* were, and no reply is awaited.                                          *)
C23_RefusedSendChangesNothing ==
    [][ last'.op = "refused" =>
            /\ last'.notices # {}
            /\ Active(heap', messages') = Active(heap, messages)
            /\ Deep(chat_history', heap') = Deep(chat_history, heap)
            /\ current_chat_id' = current_chat_id
            /\ file' = file
            /\ pc' = "idle"
      ]_vars

C23_Witness ==
    /\ last.op = "refused"
    /\ "Emotion model not available" \in last.notices
    /\ Len(Active(heap, messages)) = 2
    /\ current_chat_id \in DOMAIN chat_history

C25_TitleDerivation ==
    result.k = "title" =>
        IF result.messages = <<>>
        THEN result.value = <<"N", "e", "w", " ", "C", "h", "a", "t">>
        ELSE \E content \in {IF "content" \in DOMAIN result.messages[1]
                             THEN result.messages[1].content ELSE <<>>} :
                IF Len(content) <= 30
                THEN result.value = content
                ELSE /\ Len(result.value) = 33
                     /\ \A i \in 1..30 : result.value[i] = content[i]
                     /\ \A i \in 31..33 : result.value[i] = "."

C25_Witness ==
    /\ result.k = "title"
    /\ Len(result.messages) = 2
    /\ Len(result.messages[1].content) = 31
    /\ result.value = Rep(EACUTE, 30) \o <<".", ".", ".">>

(* C26: appending the user message of a send changes neither the map (the  *)
(* message lists of its records included) nor the file: both change only   *)
(* when the reply has been appended too.                                   *)
C26_MapUntouchedWhileWaiting ==
    [][ last'.op = "append_user" =>
            /\ Deep(chat_history', heap') = Deep(chat_history, heap)
            /\ file' = file
      ]_vars

(* C27: in the single-user deployment, after a send, a new chat, a switch, *)
(* a delete or a clear-all whose save succeeded, the file holds the map in *)
(* memory, and every session that had messages and was not deleted or      *)
(* cleared is in it with all its messages, so that a restart recovers it.  *)
C27_StoreIsTruth ==
    [][ (last'.op \in {"append_assistant", "new", "switch", "delete", "clear"}
         /\ last'.saved = "ok") =>
            /\ Persisted(file', "None").found
            /\ Persisted(file', "None").value = Deep(chat_history', heap')
            /\ last'.op # "clear" =>
                  \A id \in DOMAIN chat_history \ {last'.arg} :
                      /\ id \in DOMAIN Persisted(file', "None").value
                      /\ IsPrefix(heap[chat_history[id].messages],
                                  Persisted(file', "None").value[id].messages)
            /\ (last'.op \in {"new", "switch"} /\ Active(heap, messages) # <<>>) =>
                  /\ current_chat_id \in DOMAIN Persisted(file', "None").value
                  /\ Persisted(file', "None").value[current_chat_id].messages
                         = Active(heap, messages)
      ]_vars

(* C28: the single-user lifecycle never puts a record without messages in  *)
(* the map: starting from a store without such a record, after any sends,  *)
(* new chats, switches and deletes every record of the map, and of the     *)
(* file, has a message.                                                    *)
C28_NoEmptyRecord ==
    mode = "app" =>
        /\ \A id \in DOMAIN chat_history : heap[chat_history[id].messages] # <<>>
        /\ file.k = "json" =>
               \A id \in DOMAIN file.doc : JsonLoad(file.doc)[id].messages # <<>>

C28_Witness ==
    /\ mode = "app" /\ last.op = "new" /\ last.saved = "none"
    /\ Cardinality(DOMAIN chat_history) = 2
    /\ Active(heap, messages) = <<>>

(* C29: the title stored in a record of the single-user map is the title   *)
(* of the record's messages, also after messages were appended to the      *)
(* session since the record was written; the file's records are the same.  *)
C29_TitleDerived ==
    mode = "app" =>
        /\ \A id \in DOMAIN chat_history :
               \E msgs \in {heap[chat_history[id].messages]} :
                  chat_history[id].title =
                      IF msgs = <<>> THEN NewChat
                      ELSE IF Len(msgs[1].content) > TitleLimit
                      THEN SubSeq(msgs[1].content, 1, TitleLimit) \o Ellipsis
                      ELSE msgs[1].content
        /\ file.k = "json" =>
               \A id \in DOMAIN file.doc :
                   \E rec \in {JsonLoad(file.doc)[id]} :
                      rec.title = get_chat_title(rec.messages)

C29_Witness ==
    /\ mode = "app" /\ pc = "replying"
    /\ current_chat_id \in DOMAIN chat_history
    /\ chat_history[current_chat_id].messages = messages
    /\ Len(heap[messages]) = 3
    /\ heap[messages][1].content = Long
    /\ heap[messages][3].content = Short
    /\ chat_history[current_chat_id].title = Rep("A", TitleLimit) \o Ellipsis

(* C30: every annotation analyze_emotion produces has an integer intensity  *)
(* in 1..5 fixed by its label (joy and love 5, surprise 4, anger and fear   *)
(* 2, sadness 1, any other label 3); empty or blank text, a missing model   *)
(* and a classifier exception give the neutral result with intensity 3;     *)
(* and for empty or blank text the classifier is not invoked.               *)
C30_IntensityByLabel ==
    result.k = "annotation" =>
        LET v == result.value
            c == result.call
            blank == \A i \in 1..Len(c.text) : c.text[i] \in {" ", NEWLINE}
            missing == c.model \notin {[none |-> FALSE, pipeline |-> "pipeline",
                                        model_type |-> "distilbert-emotion"]}
        IN /\ v.intensity \in 1..5
           /\ v.intensity = (CASE v.emotion \in {"joy", "love"} -> 5
                               [] v.emotion = "surprise" -> 4
                               [] v.emotion \in {"anger", "fear"} -> 2
                               [] v.emotion = "sadness" -> 1
                               [] OTHER -> 3)
           /\ (blank \/ missing \/ c.outcome.raised)
                  => v.emotion = "neutral" /\ v.intensity = 3
           /\ blank => result.calls = <<>>
           /\ (~blank /\ ~missing) => Len(result.calls) = 1

C30_Witness ==
    /\ result.k = "annotation"
    /\ result.call.text = Short
    /\ result.calls = <<Short>>
    /\ result.value.emotion = "LABEL_1"
    /\ result.value.intensity = 3

(* C31: in the single-user mode, after every completed action the active   *)
(* list and every archived list, in the map and in the file, have even      *)
(* length and alternate user, assistant, user, assistant, with an           *)
(* emotion_analysis on every user message and on no assistant message.      *)
C31_Alternates ==
    (mode = "app" /\ pc = "idle") =>
        \A msgs \in {heap[messages]}
                    \cup {heap[chat_history[id].messages] : id \in DOMAIN chat_history}
                    \cup (IF file.k = "json"
                          THEN {JsonLoad(file.doc)[id].messages : id \in DOMAIN file.doc}
                          ELSE {}) :
            /\ Len(msgs) % 2 = 0
            /\ \A i \in 1..Len(msgs) :
                  /\ msgs[i].role = (IF i % 2 = 1 THEN "user" ELSE "assistant")
                  /\ ("emotion_analysis" \in DOMAIN msgs[i]) = (i % 2 = 1)

C31_Witness ==
    /\ mode = "app" /\ pc = "idle" /\ last.op = "append_assistant"
    /\ Len(heap[messages]) = 4
    /\ heap[messages][3].role = "user"
    /\ "emotion_analysis" \in DOMAIN heap[messages][3]
    /\ heap[messages][4].role = "assistant"
    /\ file.k = "json"
    /\ \E id \in DOMAIN file.doc : Len(JsonLoad(file.doc)[id].messages) = 4

(* C32: session isolation. A session that SessionManager.initialize starts  *)
(* from an empty st.session_state receives an empty message list as its     *)
(* default, whatever earlier sessions of the process appended in place to   *)
(* the lists they held.                                                     *)
C32_SessionIsolation ==
    [][ (mode = "sm" /\ last'.op = "sm_initialize" /\ pc = "none") =>
            Active(heap', messages') = <<>>
      ]_vars

(* C33: SessionManager.initialize always terminates, and the recursion      *)
(* initialize -> _check_session_timeout -> clear_session -> initialize      *)
(* nests at most one level: never more than two initialize frames.          *)
C33_InitializeTerminates ==
    <>[](mode = "nest" => (result.stack = <<>> /\ result.deepest <= 2))

C33_Witness ==
    /\ mode = "nest"
    /\ result.stack = <<>>
    /\ result.deepest = 2
    /\ result.warnings = 1
    /\ result.elapsed = MaxElapsed

(* C35: import_user_data(export_user_data()) leaves chat_history and        *)
(* user_preferences as they were, returns True, and persists them: the      *)
(* file's entry for the current user equals chat_history, the user's        *)
(* preferences file holds the preferences, and the other users' entries     *)
(* are unchanged.                                                           *)
C35_ExportImportRoundTrip ==
    [][ (last'.op = "sm_import" /\ ~faulted') =>
            /\ Deep(chat_history', heap') = Deep(chat_history, heap)
            /\ result'.user_preferences = result.user_preferences
            /\ result'.returned = TRUE
            /\ Persisted(data_file', user_id) =
                   [found |-> TRUE, value |-> Deep(chat_history', heap')]
            /\ user_id \in DOMAIN result'.preferences
            /\ result'.preferences[user_id] = Json(result'.user_preferences)
            /\ data_file.k = "json" =>
                   \A u \in DOMAIN data_file.doc \ {user_id} :
                       /\ u \in DOMAIN data_file'.doc
                       /\ JsonLoad(data_file'.doc[u]) = JsonLoad(data_file.doc[u])
      ]_vars

====
